---- MODULE Spec2Model ----
(***************************************************************************)
(* Billing reconciliation core of tissglosa: claim-document parser         *)
(* (core/xml_parser.py), key normalizer and denial-reason taxonomy         *)
(* (core/utils.py), billed-item table builder and three-tier               *)
(* reconciliation engine (core/conciliation_engine.py), analytics over the *)
(* reconciled table (core/analytics.py), session state of the              *)
(* denial-report tab (state/ui_state.py, ui/glosas_view.py).               *)
(*                                                                         *)
(* Representation.  A Python str is a sequence of one-character strings.   *)
(* Decimal / float values are integers (the parser's Decimal arithmetic is *)
(* exact; amounts are whole currency units here).  A pandas table is a     *)
(* sequence of rows, a row is a record whose DOMAIN is the set of columns. *)
(* A missing cell is NaN in a numeric column and NaNText in a text column. *)
(***************************************************************************)
EXTENDS Integers, Sequences, FiniteSets, TLC

VARIABLES
    pc,                     \* position of the pipeline: "idle", "built", "raised", "done"
                            \* ("analytics" while an analytics function is studied)
    xml_files,              \* build_xml_df argument: the batch of claim documents
    strip_zeros_codes,      \* build_xml_df argument
    df_xml,                 \* table returned by build_xml_df
    erro,                   \* exception that escaped build_xml_df ("" when none)
    df_demo,                \* conciliar_itens argument: the payment table
    tolerance_valor,        \* conciliar_itens argument
    fallback_por_descricao, \* conciliar_itens argument
    conciliacao,            \* result["conciliacao"]
    nao_casados,            \* result["nao_casados"]
    m1, m2,                 \* conciliar_itens locals: the tier-1 and tier-2 joins
    tmp,                    \* conciliar_itens local: the candidate rows of tier 3
    fallback_matches,       \* conciliar_itens local: the rows accepted by tier 3
    apos,                   \* the two tables given to conciliar_itens, as they are after the call
    nc,                     \* normalize_code call under study: its argument, flag and results
    px,                     \* parse_itens_tiss_xml call under study: its source and outcome
    an,                     \* analytics call under study: its table, arguments and results
    cm,                     \* categorizar_motivo_ans call under study: its code and category
    session_state,          \* st.session_state: the keys of the denial-report tab
    ui                      \* the browser side of the denial-report tab and its last script run

vars == <<pc, xml_files, strip_zeros_codes, df_xml, erro, df_demo, tolerance_valor,
          fallback_por_descricao, conciliacao, nao_casados, m1, m2, tmp,
          fallback_matches, apos, nc, px, an, cm, session_state, ui>>

uiVars == <<session_state, ui>>

pipeVars == <<pc, xml_files, strip_zeros_codes, df_xml, erro, df_demo, tolerance_valor,
              fallback_por_descricao, conciliacao, nao_casados, m1, m2, tmp,
              fallback_matches, apos>>

(***************************************************************************)
(* Bounds of the model.                                                    *)
(***************************************************************************)
MaxLen == 3         \* longest procedure-code text given to normalize_code
MaxNum == 2         \* largest quantity / value written in a document or a payment row
MaxTol == 1         \* largest tolerance_valor
MaxRows == 2        \* most rows added to the group of four of an outlier table

(***************************************************************************)
(* Strings.                                                                *)
(***************************************************************************)
\* characters removed by the regular expression of normalize_code
Punct == {".", "-", "_", "/", " ", "\t"}

\* characters removed by str.strip() / str.lstrip() without argument
Whitespace == {" ", "\t", "\n", "\r"}

RECURSIVE LStripChars(_, _)
LStripChars(s, chars) ==
    IF s # <<>> /\ Head(s) \in chars THEN LStripChars(Tail(s), chars) ELSE s

RECURSIVE RStripChars(_, _)
RStripChars(s, chars) ==
    IF s # <<>> /\ s[Len(s)] \in chars
    THEN RStripChars(SubSeq(s, 1, Len(s) - 1), chars)
    ELSE s

\* str.strip()
Strip(s) == RStripChars(LStripChars(s, Whitespace), Whitespace)

\* re.sub(r'[\.\-_/ \t]', '', s)
ReSubPunct(s) == SelectSeq(s, LAMBDA c : c \notin Punct)

\* strings of length at most n over the alphabet A
RECURSIVE StringsUpTo(_, _)
StringsUpTo(A, n) ==
    IF n = 0 THEN {<<>>}
    ELSE LET shorter == StringsUpTo(A, n - 1)
         IN  shorter \cup {Append(s, c) : s \in shorter, c \in A}

(***************************************************************************)
(* core/utils.py                                                           *)
(***************************************************************************)
normalize_code(s, strip_zeros) ==
    LET s2 == Strip(ReSubPunct(s))
    IN  IF strip_zeros THEN LStripChars(s2, {"0"}) ELSE s2

\* an element that is absent from the document (find() returned None); an element
\* that is present is represented by its text
NoEl == <<"NoEl">>

\* a nested block that is absent from the document
NoBlock == [present |-> FALSE]

\* tx(el)
tx(el) == IF el = NoEl \/ el = <<>> THEN <<>> ELSE Strip(el)

Digits == {"0", "1", "2", "3", "4", "5", "6", "7", "8", "9"}

DigitVal(c) ==
    CASE c = "0" -> 0 [] c = "1" -> 1 [] c = "2" -> 2 [] c = "3" -> 3 [] c = "4" -> 4
      [] c = "5" -> 5 [] c = "6" -> 6 [] c = "7" -> 7 [] c = "8" -> 8 [] c = "9" -> 9

\* s.replace(',', '.')
ReplaceComma(s) == [i \in 1..Len(s) |-> IF s[i] = "," THEN "." ELSE s[i]]

\* the literals Decimal() accepts, within the whole numbers of this model
IsDecimalLiteral(s) ==
    LET d == IF s # <<>> /\ Head(s) = "-" THEN Tail(s) ELSE s
    IN  d # <<>> /\ \A i \in 1..Len(d) : d[i] \in Digits

RECURSIVE DigitsValue(_)
DigitsValue(d) ==
    IF d = <<>> THEN 0
    ELSE 10 * DigitsValue(SubSeq(d, 1, Len(d) - 1)) + DigitVal(d[Len(d)])

\* Decimal(s) for an accepted literal
DecimalOf(s) == IF Head(s) = "-" THEN 0 - DigitsValue(Tail(s)) ELSE DigitsValue(s)

\* dec(txt) raises decimal.InvalidOperation
dec_raises(txt) ==
    LET s == ReplaceComma(Strip(txt))
    IN  s # <<>> /\ ~IsDecimalLiteral(s)

\* dec(txt) when it returns
dec(txt) ==
    LET s == ReplaceComma(Strip(txt))
    IN  IF s = <<>> THEN 0 ELSE DecimalOf(s)

\* the decimal literal of a natural number (used to write documents)
RECURSIVE Literal(_)
Literal(n) ==
    LET c == CHOOSE c \in Digits : DigitVal(c) = n % 10
    IN  IF n < 10 THEN <<c>> ELSE Append(Literal(n \div 10), c)

\* concatenation of a sequence of sequences
RECURSIVE ConcatAll(_)
ConcatAll(ss) == IF ss = <<>> THEN <<>> ELSE Head(ss) \o ConcatAll(Tail(ss))

(***************************************************************************)
(* core/xml_parser.py                                                      *)
(*                                                                         *)
(* A document is [has_read, name, wellformed, guias]; a guide is           *)
(*   [tipo, numeroGuiaPrestador, numeroGuiaOperadora, cabecalhoGuia,       *)
(*    dadosAutorizacao, procedimento, procedimentosExecutados,             *)
(*    outrasDespesas]                                                      *)
(* with elements given by their text (NoEl when absent) and nested blocks  *)
(* by records with a present flag.  The columns numero_lote, paciente,     *)
(* medico, data_atendimento and codigo_tabela are copied from the document *)
(* without any computation and are left out.                               *)
(***************************************************************************)
\* variant of _itens_consulta that emits nothing for a guide without procedure block
_itens_consulta_so_com_bloco(guia) ==
    IF guia.procedimento.present
    THEN << [tipo_item              |-> "procedimento",
             identificadorDespesa   |-> <<>>,
             codigo_procedimento    |-> tx(guia.procedimento.codigoProcedimento),
             descricao_procedimento |-> tx(guia.procedimento.descricaoProcedimento),
             quantidade             |-> 1,
             valor_unitario         |-> dec(tx(guia.procedimento.valorProcedimento)),
             valor_total            |-> dec(tx(guia.procedimento.valorProcedimento))] >>
    ELSE <<>>

_itens_consulta(guia) ==
    LET proc        == guia.procedimento
        codigo_proc == IF proc.present THEN tx(proc.codigoProcedimento) ELSE <<>>
        descricao   == IF proc.present THEN tx(proc.descricaoProcedimento) ELSE <<>>
        valor       == IF proc.present THEN dec(tx(proc.valorProcedimento)) ELSE 0
    IN  << [tipo_item              |-> "procedimento",
            identificadorDespesa   |-> <<>>,
            codigo_procedimento    |-> codigo_proc,
            descricao_procedimento |-> descricao,
            quantidade             |-> 1,
            valor_unitario         |-> valor,
            valor_total            |-> valor] >>

_itens_consulta_raises(guia) ==
    guia.procedimento.present /\ dec_raises(tx(guia.procedimento.valorProcedimento))

\* variant of the back-fill that drops the test of the source total: the total is
\* recomputed whenever unit value and quantity are positive
vtot_backfill_sempre(qtd, vuni, vtot) ==
    IF vuni > 0 /\ qtd > 0 THEN vuni * qtd ELSE vtot

\* "if vtot == DEC_ZERO and (vuni > DEC_ZERO and qtd > DEC_ZERO): vtot = vuni * qtd"
vtot_backfill(qtd, vuni, vtot) ==
    IF vtot = 0 /\ (vuni > 0 /\ qtd > 0) THEN vuni * qtd ELSE vtot

\* the record appended by either loop of _itens_sadt
sadt_item(tipo_item, ident, codigo_proc, descricao, qtd, vuni, vtot0) ==
    LET vtot == vtot_backfill(qtd, vuni, vtot0)
    IN  [tipo_item              |-> tipo_item,
         identificadorDespesa   |-> ident,
         codigo_procedimento    |-> codigo_proc,
         descricao_procedimento |-> descricao,
         quantidade             |-> IF qtd > 0 THEN qtd ELSE 1,
         valor_unitario         |-> IF vuni > 0 THEN vuni ELSE vtot,
         valor_total            |-> vtot]

_item_executado(it) ==
    LET proc == it.procedimento
    IN  sadt_item("procedimento", <<>>,
                  IF proc.present THEN tx(proc.codigoProcedimento) ELSE <<>>,
                  IF proc.present THEN tx(proc.descricaoProcedimento) ELSE <<>>,
                  dec(tx(it.quantidadeExecutada)),
                  dec(tx(it.valorUnitario)),
                  dec(tx(it.valorTotal)))

_item_despesa(desp) ==
    LET sv == desp.servicosExecutados
    IN  sadt_item("outra_despesa", tx(desp.identificadorDespesa),
                  IF sv.present THEN tx(sv.codigoProcedimento) ELSE <<>>,
                  IF sv.present THEN tx(sv.descricaoProcedimento) ELSE <<>>,
                  IF sv.present THEN dec(tx(sv.quantidadeExecutada)) ELSE 0,
                  IF sv.present THEN dec(tx(sv.valorUnitario)) ELSE 0,
                  IF sv.present THEN dec(tx(sv.valorTotal)) ELSE 0)

_itens_sadt(guia) ==
    [i \in 1..Len(guia.procedimentosExecutados) |->
        _item_executado(guia.procedimentosExecutados[i])]
    \o
    [j \in 1..Len(guia.outrasDespesas) |-> _item_despesa(guia.outrasDespesas[j])]

_itens_sadt_raises(guia) ==
    \/ \E i \in 1..Len(guia.procedimentosExecutados) :
          LET it == guia.procedimentosExecutados[i]
          IN  \/ dec_raises(tx(it.quantidadeExecutada))
              \/ dec_raises(tx(it.valorUnitario))
              \/ dec_raises(tx(it.valorTotal))
    \/ \E j \in 1..Len(guia.outrasDespesas) :
          LET sv == guia.outrasDespesas[j].servicosExecutados
          IN  /\ sv.present
              /\ \/ dec_raises(tx(sv.quantidadeExecutada))
                 \/ dec_raises(tx(sv.valorUnitario))
                 \/ dec_raises(tx(sv.valorTotal))

\* numero_guia_prest, numero_guia_oper of a guiaConsulta
numeros_guia_consulta(guia) ==
    LET numero_guia_prest == tx(guia.numeroGuiaPrestador)
        oper              == tx(guia.numeroGuiaOperadora)
    IN  [numeroGuiaPrestador |-> numero_guia_prest,
         numeroGuiaOperadora |-> IF oper # <<>> THEN oper ELSE numero_guia_prest]

\* numero_guia_prest, numero_guia_oper of a guiaSP-SADT
numeros_guia_sadt(guia) ==
    LET cab    == guia.cabecalhoGuia
        aut    == guia.dadosAutorizacao
        prest0 == tx(guia.numeroGuiaPrestador)
        numero_guia_prest ==
            IF prest0 = <<>> /\ cab.present THEN tx(cab.numeroGuiaPrestador) ELSE prest0
        oper0  == IF aut.present THEN tx(aut.numeroGuiaOperadora) ELSE <<>>
        oper1  == IF oper0 = <<>> /\ cab.present THEN tx(cab.numeroGuiaOperadora) ELSE oper0
    IN  [numeroGuiaPrestador |-> numero_guia_prest,
         numeroGuiaOperadora |-> IF oper1 = <<>> THEN numero_guia_prest ELSE oper1]

\* getattr(source, "name", "upload.xml") of a stream, p.name of a path
nome_de(source) ==
    IF source.has_read
    THEN (IF source.has_name THEN source.name ELSE "upload.xml")
    ELSE source.name

\* the exception parse_itens_tiss_xml raises on this source ("" when it returns)
parse_raises(source) ==
    IF ~source.wellformed THEN "ParseError"
    ELSE IF \E i \in 1..Len(source.guias) :
               LET guia == source.guias[i]
               IN  IF guia.tipo = "guiaConsulta" THEN _itens_consulta_raises(guia)
                   ELSE _itens_sadt_raises(guia)
         THEN "InvalidOperation"
         ELSE ""

\* the list parse_itens_tiss_xml returns: the items of every guiaConsulta, then
\* those of every guiaSP-SADT, each completed with the columns of its guide
parse_itens_tiss_xml(source) ==
    LET nome == nome_de(source)
        itens_da_guia(guia) ==
            LET consulta == guia.tipo = "guiaConsulta"
                itens    == IF consulta THEN _itens_consulta(guia) ELSE _itens_sadt(guia)
                numeros  == IF consulta THEN numeros_guia_consulta(guia)
                            ELSE numeros_guia_sadt(guia)
            IN  [k \in 1..Len(itens) |->
                    itens[k] @@ [arquivo             |-> nome,
                                 tipo_guia           |-> IF consulta THEN "CONSULTA" ELSE "SADT",
                                 numeroGuiaPrestador |-> numeros.numeroGuiaPrestador,
                                 numeroGuiaOperadora |-> numeros.numeroGuiaOperadora]]
        consultas == SelectSeq(source.guias, LAMBDA g : g.tipo = "guiaConsulta")
        sadts     == SelectSeq(source.guias, LAMBDA g : g.tipo = "guiaSP-SADT")
    IN  ConcatAll([i \in 1..Len(consultas) |-> itens_da_guia(consultas[i])])
        \o ConcatAll([i \in 1..Len(sadts) |-> itens_da_guia(sadts[i])])

(***************************************************************************)
(* pandas tables                                                           *)
(***************************************************************************)
\* float('nan'), the missing value of a numeric column
NaN == -1000

\* the missing value of a column of str objects
NaNText == <<"NaN">>

\* columns holding numbers; columns holding names that are never taken apart
NumCols == {"quantidade", "valor_unitario", "valor_total", "valor_apresentado",
            "valor_glosa", "apresentado_diff", "xml_index", "demo_index"}

AtomCols == {"arquivo", "tipo_item", "tipo_guia", "erro", "matched_on"}

Missing(c) == IF c \in NumCols THEN NaN ELSE IF c \in AtomCols THEN "NaN" ELSE NaNText

\* Series.notna() on a numeric cell
notna(v) == v # NaN

\* float arithmetic and comparison: NaN propagates and compares false
Sub(a, b) == IF a = NaN \/ b = NaN THEN NaN ELSE a - b

Abs(a) == IF a = NaN THEN NaN ELSE IF a < 0 THEN 0 - a ELSE a

Leq(a, b) == a # NaN /\ b # NaN /\ a <= b

Gt(a, b) == a # NaN /\ b # NaN /\ a > b

\* a / b as an exact fraction; a zero denominator or a NaN operand is kept visible
TrueDiv(a, b) == [num |-> a, den |-> b]

\* the float 0.0 as a fraction
ZeroFloat == [num |-> 0, den |-> 1]

\* str(v) / astype(str) of a text cell, .fillna('') of a text cell
AsStr(v) == IF v = NaNText THEN <<"n", "a", "n">> ELSE v

FillnaText(v) == IF v = NaNText THEN <<>> ELSE v

\* the columns of a table with at least one row
Columns(rows) == UNION {DOMAIN rows[i] : i \in 1..Len(rows)}

Reindex(r, cols) == [c \in cols |-> IF c \in DOMAIN r THEN r[c] ELSE Missing(c)]

\* pd.DataFrame(list of dicts): the columns are the union of the keys
DataFrame(linhas) ==
    LET cols == Columns(linhas)
    IN  [i \in 1..Len(linhas) |-> Reindex(linhas[i], cols)]

\* df[cols]
Project(rows, cols) == [i \in 1..Len(rows) |-> [c \in cols |-> rows[i][c]]]

\* the rows at the positions in S, in order
RECURSIVE RowsAt(_, _, _)
RowsAt(rows, S, i) ==
    IF i > Len(rows) THEN <<>>
    ELSE (IF i \in S THEN <<rows[i]>> ELSE <<>>) \o RowsAt(rows, S, i + 1)

\* variant of drop_duplicates that removes only rows equal in every column
drop_duplicates_todas(rows, subset) ==
    RowsAt(rows, {i \in 1..Len(rows) : \A j \in 1..(i - 1) : rows[j] # rows[i]}, 1)

\* df.drop_duplicates(subset=subset): the first row of every group is kept
drop_duplicates(rows, subset) ==
    LET key(i) == [c \in subset |-> rows[i][c]]
        first  == {i \in 1..Len(rows) : \A j \in 1..(i - 1) : key(j) # key(i)}
    IN  RowsAt(rows, first, 1)

\* the columns of left.merge(right, ..., suffixes=("_xml", "_demo")): a column on
\* both sides that is not a common join key is renamed on both sides
MergedName(c, overlap, suffix) == IF c \in overlap THEN c \o suffix ELSE c

Renamed(r, cols, overlap, suffix) ==
    [c \in cols \ overlap |-> r[c]]
    @@ [n \in {c \o suffix : c \in cols \cap overlap} |->
           r[CHOOSE c \in cols \cap overlap : c \o suffix = n]]

MergedCols(lcols, rcols, common) ==
    LET overlap == (lcols \cap rcols) \ common
    IN  {MergedName(c, overlap, "_xml") : c \in lcols}
        \cup {MergedName(c, overlap, "_demo") : c \in rcols \ common}

\* variant of the join that keeps only the left rows that found a right row
\* (how="inner")
merge_inner(left, right, lcols, rcols, left_on, right_on, common) ==
    LET overlap   == (lcols \cap rcols) \ common
        joined(l, r) == Renamed(l, lcols, overlap, "_xml")
                        @@ Renamed(r, rcols \ common, overlap, "_demo")
        matches(l) == SelectSeq(right, LAMBDA r :
                          \A k \in 1..Len(left_on) : l[left_on[k]] = r[right_on[k]])
    IN  ConcatAll([i \in 1..Len(left) |->
                      [k \in 1..Len(matches(left[i])) |-> joined(left[i], matches(left[i])[k])]])

\* left.merge(right, how="left") on the key columns left_on = right_on (sequences of
\* column names); common is the set of key columns given by on=[...]
merge_left(left, right, lcols, rcols, left_on, right_on, common) ==
    LET overlap   == (lcols \cap rcols) \ common
        nullrow   == [c \in rcols |-> Missing(c)]
        joined(l, r) == Renamed(l, lcols, overlap, "_xml")
                        @@ Renamed(r, rcols \ common, overlap, "_demo")
        matches(l) == SelectSeq(right, LAMBDA r :
                          \A k \in 1..Len(left_on) : l[left_on[k]] = r[right_on[k]])
        fan(l)     == IF matches(l) = <<>> THEN <<joined(l, nullrow)>>
                      ELSE [k \in 1..Len(matches(l)) |-> joined(l, matches(l)[k])]
    IN  ConcatAll([i \in 1..Len(left) |-> fan(left[i])])

\* pd.concat([a, b], ignore_index=True): the columns are the union of both
concat(a, acols, b, bcols) ==
    [i \in 1..Len(a) |-> Reindex(a[i], acols \cup bcols)]
    \o [i \in 1..Len(b) |-> Reindex(b[i], acols \cup bcols)]

\* variant of DataFrame.copy() that hands back the object itself (a plain
\* assignment): what is written through the new name is written to the original
copy_alias(original, escrito) == escrito

\* df.copy(): a new object with the rows of the original.  Given the rows the code
\* goes on to leave in the new object (escrito), the rows of the original after
\* those writes
copy(original, escrito) == original

\* the position of each row in its table (the DataFrame index), kept as a column so
\* that a merged row still names the billed item and the payment row it joins
WithIndex(rows, col) == [i \in 1..Len(rows) |-> rows[i] @@ (col :> i)]

(***************************************************************************)
(* core/conciliation_engine.py                                             *)
(***************************************************************************)
\* getattr(f, 'name', 'upload.xml')
name_attr(f) == IF f.has_name THEN f.name ELSE "upload.xml"

\* what one file adds to linhas: its items, or one error record
linhas_de(f) ==
    LET source == IF f.has_read THEN [f EXCEPT !.has_name = FALSE] ELSE f
        e      == parse_raises(source)
    IN  IF e = "" THEN parse_itens_tiss_xml(source)
        ELSE << [arquivo |-> name_attr(f), erro |-> e] >>

linhas_de_todos(files) == ConcatAll([i \in 1..Len(files) |-> linhas_de(files[i])])

\* the exception that escapes build_xml_df ("" when it returns)
build_xml_df_raises(files) ==
    LET df == DataFrame(linhas_de_todos(files))
    IN  IF df # <<>> /\ "codigo_procedimento" \notin Columns(df) THEN "KeyError" ELSE ""

\* variant of the key with a single "_" between guide number and code
chave_um_separador(numero_guia, codigo_norm) ==
    Strip(AsStr(FillnaText(numero_guia))) \o <<"_">> \o Strip(AsStr(FillnaText(codigo_norm)))

\* the key columns: guide number (blank-safe, trimmed) + "__" + normalized code
chave(numero_guia, codigo_norm) ==
    Strip(AsStr(FillnaText(numero_guia))) \o <<"_", "_">> \o Strip(AsStr(FillnaText(codigo_norm)))

build_xml_df(files, strip_zeros) ==
    LET df == DataFrame(linhas_de_todos(files))
        numeric(r) == [c \in DOMAIN r |->
                          IF c \in {"quantidade", "valor_unitario", "valor_total"} /\ r[c] = NaN
                          THEN 0 ELSE r[c]]
        keyed(r) ==
            LET norm == normalize_code(AsStr(r.codigo_procedimento), strip_zeros)
            IN  r @@ [codigo_procedimento_norm |-> norm,
                      chave_prest |-> chave(r.numeroGuiaPrestador, norm),
                      chave_oper  |-> chave(r.numeroGuiaOperadora, norm)]
    IN  [i \in 1..Len(df) |-> keyed(numeric(df[i]))]

_XML_CORE_COLS ==
    {"arquivo", "numero_lote", "tipo_guia", "numeroGuiaPrestador", "numeroGuiaOperadora",
     "paciente", "medico", "data_atendimento", "tipo_item", "identificadorDespesa",
     "codigo_tabela", "codigo_procedimento", "codigo_procedimento_norm",
     "descricao_procedimento", "quantidade", "valor_unitario", "valor_total",
     "chave_oper", "chave_prest"}

\* the columns _alias_xml_cols adds to a table with the columns cols
AliasCols(cols) == {c \in _XML_CORE_COLS : c \notin cols /\ (c \o "_xml") \in cols}

_alias_xml_cols(df) ==
    [i \in 1..Len(df) |->
        df[i] @@ [c \in AliasCols(DOMAIN df[i]) |-> df[i][c \o "_xml"]]]

\* the payment table's columns (its construction is outside the core)
DemoCols == {"chave_demo", "numeroGuiaPrestador", "descricao_procedimento",
             "valor_apresentado", "valor_glosa", "demo_index"}

\* variant of the tagging that takes the join itself for the match: a row is tagged
\* when a payment row joined it, whatever that row's presented value
matched_on_juncao(m, tag) ==
    [i \in 1..Len(m) |->
        m[i] @@ [matched_on |-> IF notna(m[i].demo_index) THEN tag ELSE ""]]

\* m[col] = m["valor_apresentado"].notna().map({True: tag, False: ""})
matched_on(m, tag) ==
    [i \in 1..Len(m) |->
        m[i] @@ [matched_on |-> IF notna(m[i].valor_apresentado) THEN tag ELSE ""]]

\* variant of the tier-3 filter with a strict comparison
keep_estrito(r, tol) ==
    /\ notna(r.valor_apresentado)
    /\ Leq(Abs(Sub(r.valor_total, r.valor_apresentado)), tol)
    /\ Abs(Sub(r.valor_total, r.valor_apresentado)) # tol

\* "(tmp.valor_apresentado.notna() & ((tmp.valor_total - tmp.valor_apresentado).abs() <= tol))"
keep(r, tol) ==
    notna(r.valor_apresentado) /\ Leq(Abs(Sub(r.valor_total, r.valor_apresentado)), tol)

\* "(r.valor_glosa / r.valor_apresentado) if r.get('valor_apresentado', 0) > 0 else 0.0"
glosa_pct(r) ==
    IF Gt(r.valor_apresentado, 0) THEN TrueDiv(r.valor_glosa, r.valor_apresentado)
    ELSE ZeroFloat

\* conciliar_itens, statement by statement.  xml and demo are df_xml and df_demo
\* with the position of each row kept in the column xml_index / demo_index.

\* m1: the tier-1 join on the provider key, tagged
conciliar_m1(xml, demo) ==
    matched_on(_alias_xml_cols(
                   merge_left(xml, demo, Columns(xml), DemoCols,
                              <<"chave_prest">>, <<"chave_demo">>, {})), "prestador")

\* m2: the rows tier 1 left untagged, joined on the payer key, tagged
conciliar_m2(xml, demo, m1_) ==
    LET restante == SelectSeq(m1_, LAMBDA r : r.matched_on = "")
    IN  matched_on(_alias_xml_cols(
                       merge_left(Project(restante, Columns(xml)), demo, Columns(xml), DemoCols,
                                  <<"chave_oper">>, <<"chave_demo">>, {})), "operadora")

\* variant of guia_join that prefers the payer guide number
ainda_sem_match_operadora(m2_) ==
    LET sem == SelectSeq(m2_, LAMBDA r : r.matched_on = "")
        g(r) == Strip(AsStr(r.numeroGuiaOperadora))
    IN  [i \in 1..Len(sem) |->
            sem[i] @@ [guia_join |-> IF g(sem[i]) # <<>> THEN g(sem[i])
                                     ELSE Strip(AsStr(sem[i].numeroGuiaPrestador))]]

\* ainda_sem_match with its guia_join column
ainda_sem_match(m2_) ==
    LET sem == SelectSeq(m2_, LAMBDA r : r.matched_on = "")
        g(r) == Strip(AsStr(r.numeroGuiaPrestador))
    IN  [i \in 1..Len(sem) |->
            sem[i] @@ [guia_join |-> IF g(sem[i]) # <<>> THEN g(sem[i])
                                     ELSE Strip(AsStr(sem[i].numeroGuiaOperadora))]]

\* df_demo2
df_demo2(demo) ==
    [i \in 1..Len(demo) |->
        demo[i] @@ [guia_join |-> Strip(AsStr(demo[i].numeroGuiaPrestador))]]

\* the payment table after the call: df_demo2, the only object derived from an
\* argument that the function writes a column to, is a copy of it (line 126)
conciliar_df_demo_apos(demo, m2_, fallback) ==
    IF fallback /\ ainda_sem_match(m2_) # <<>> THEN copy(demo, df_demo2(demo)) ELSE demo

\* variant of tier 3 that does not look at the fallback flag
conciliar_tmp_sempre(xml, demo, m2_, fallback) ==
    LET sem   == ainda_sem_match(m2_)
        on    == <<"guia_join", "descricao_procedimento">>
        tmp_l == Columns(xml) \cup {"guia_join"}
        tmp_r == DemoCols \cup {"guia_join"}
    IN  IF sem # <<>>
        THEN merge_left(Project(sem, tmp_l), df_demo2(demo), tmp_l, tmp_r,
                        on, on, {"guia_join", "descricao_procedimento"})
        ELSE <<>>

\* tmp: the tier-3 candidates, joined on guide number and description (no rows when
\* the fallback is off or nothing is left unmatched)
conciliar_tmp(xml, demo, m2_, fallback) ==
    LET sem   == ainda_sem_match(m2_)
        on    == <<"guia_join", "descricao_procedimento">>
        tmp_l == Columns(xml) \cup {"guia_join"}
        tmp_r == DemoCols \cup {"guia_join"}
    IN  IF fallback /\ sem # <<>>
        THEN merge_left(Project(sem, tmp_l), df_demo2(demo), tmp_l, tmp_r,
                        on, on, {"guia_join", "descricao_procedimento"})
        ELSE <<>>

\* variant of the tier-3 filter that accepts only a difference equal to the tolerance
conciliar_fallback_matches_exato(tmp_, tolerance) ==
    LET kept == SelectSeq(tmp_, LAMBDA r :
                    keep(r, tolerance) /\ Abs(Sub(r.valor_total, r.valor_apresentado)) = tolerance)
    IN  [i \in 1..Len(kept) |-> kept[i] @@ [matched_on |-> "descricao+valor"]]

\* fallback_matches: the candidates within the tolerance, tagged
conciliar_fallback_matches(tmp_, tolerance) ==
    LET kept == SelectSeq(tmp_, LAMBDA r : keep(r, tolerance))
    IN  [i \in 1..Len(kept) |-> kept[i] @@ [matched_on |-> "descricao+valor"]]

\* result["conciliacao"]: the tagged rows of the three tiers, with the value
\* difference and the denial ratio
conciliar_conc(cols_xml, m1_, m2_, fallback_matches_) ==
    LET m_cols  == MergedCols(cols_xml, DemoCols, {})
        fb_cols == MergedCols(cols_xml \cup {"guia_join"}, DemoCols \cup {"guia_join"},
                              {"guia_join", "descricao_procedimento"})
        conc0   == SelectSeq(m1_, LAMBDA r : r.matched_on # "")
                   \o SelectSeq(m2_, LAMBDA r : r.matched_on # "")
        conc1   == IF fallback_matches_ # <<>>
                   THEN concat(conc0, m_cols \cup AliasCols(m_cols) \cup {"matched_on"},
                               fallback_matches_, fb_cols \cup {"matched_on"})
                   ELSE conc0
        a       == _alias_xml_cols(conc1)
    IN  [i \in 1..Len(a) |->
            a[i] @@ [apresentado_diff |-> Sub(a[i].valor_total, a[i].valor_apresentado),
                     glosa_pct        |-> glosa_pct(a[i])]]

\* result["nao_casados"]: the rows tier 2 left untagged whose provider key tier 3
\* did not resolve, one per (arquivo, numeroGuiaPrestador, codigo, valor_total)
conciliar_unmatch(m2_, fallback_matches_) ==
    LET chaves_resolvidas ==
            {fallback_matches_[i].chave_prest : i \in 1..Len(fallback_matches_)}
        unmatch == SelectSeq(m2_, LAMBDA r :
                       r.matched_on = "" /\ r.chave_prest \notin chaves_resolvidas)
    IN  drop_duplicates(_alias_xml_cols(unmatch),
                        {"arquivo", "numeroGuiaPrestador", "codigo_procedimento", "valor_total"})

(***************************************************************************)
(* parse_itens_tiss_xml in isolation: one document, parsed once.           *)
(***************************************************************************)
\* numeric element texts: absent, not a number, or the literal of 0..MaxNum
NumTexts == {NoEl, <<"x">>} \cup {Literal(n) : n \in 0..MaxNum}

\* guide-number element texts: absent, blank, or the given number
GuideTexts(number) == {NoEl, <<" ">>, number}

Doc(guias) == [has_read |-> TRUE, has_name |-> TRUE, name |-> "a.xml",
               wellformed |-> TRUE, guias |-> guias]

EmptyDoc == Doc(<<>>)

MalformedDoc == [EmptyDoc EXCEPT !.wellformed = FALSE]

ProcBlock(codigo, descricao, valor) ==
    [present |-> TRUE, codigoProcedimento |-> codigo, descricaoProcedimento |-> descricao,
     valorProcedimento |-> valor]

Executado(proc, qtd, vuni, vtot) ==
    [procedimento |-> proc, quantidadeExecutada |-> qtd, valorUnitario |-> vuni,
     valorTotal |-> vtot]

Despesa(ident, sv) == [identificadorDespesa |-> ident, servicosExecutados |-> sv]

Servico(codigo, descricao, qtd, vuni, vtot) ==
    [present |-> TRUE, codigoProcedimento |-> codigo, descricaoProcedimento |-> descricao,
     quantidadeExecutada |-> qtd, valorUnitario |-> vuni, valorTotal |-> vtot]

Guia(tipo, prest, oper, cab, aut, proc, executados, despesas) ==
    [tipo |-> tipo, numeroGuiaPrestador |-> prest, numeroGuiaOperadora |-> oper,
     cabecalhoGuia |-> cab, dadosAutorizacao |-> aut, procedimento |-> proc,
     procedimentosExecutados |-> executados, outrasDespesas |-> despesas]

UmProc == ProcBlock(<<"1">>, <<"d">>, <<"1">>)

UmExecutado == Executado(UmProc, <<"1">>, <<"1">>, <<"1">>)

\* every combination of present / blank / absent guide-number elements, in guides
\* of both types with one item each
GuiasNumeros ==
    { Guia(tipo, prest, oper, cab, aut, UmProc,
           IF tipo = "guiaConsulta" THEN <<>> ELSE <<UmExecutado>>, <<>>) :
        tipo \in {"guiaConsulta", "guiaSP-SADT"},
        prest \in GuideTexts(<<"A">>),
        oper \in GuideTexts(<<"B">>),
        cab \in {NoBlock} \cup
                { [present |-> TRUE, numeroGuiaPrestador |-> cp, numeroGuiaOperadora |-> co] :
                    cp \in GuideTexts(<<"C">>), co \in GuideTexts(<<"D">>) },
        aut \in {NoBlock} \cup
                { [present |-> TRUE, numeroGuiaOperadora |-> ao] : ao \in GuideTexts(<<"E">>) } }

SadtCom(executados, despesas) ==
    Guia("guiaSP-SADT", <<"A">>, NoEl, NoBlock, NoBlock, NoBlock, executados, despesas)

ConsultaCom(proc) ==
    Guia("guiaConsulta", <<"A">>, NoEl, NoBlock, NoBlock, proc, <<>>, <<>>)

Executados ==
    { Executado(proc, qtd, vuni, vtot) :
        proc \in {NoBlock, UmProc}, qtd \in NumTexts, vuni \in NumTexts, vtot \in NumTexts }

Despesas ==
    { Despesa(<<"7">>, sv) :
        sv \in {NoBlock} \cup { Servico(<<"2">>, <<"e">>, qtd, vuni, vtot) :
                                  qtd \in NumTexts, vuni \in NumTexts, vtot \in NumTexts } }

\* every combination of quantity, unit value and total in one executed procedure
\* or one ancillary expense; CONSULTATION guides with and without procedure block
GuiasItens ==
    { SadtCom(<<e>>, <<>>) : e \in Executados }
    \cup { SadtCom(<<>>, <<d>>) : d \in Despesas }
    \cup { SadtCom(<<UmExecutado, e>>, <<d>>) :
             e \in {Executado(UmProc, <<"2">>, <<"2">>, <<"0">>)},
             d \in {Despesa(<<"7">>, Servico(<<"2">>, <<"e">>, <<"0">>, <<"2">>, <<"0">>))} }
    \cup { ConsultaCom(proc) :
             proc \in {NoBlock} \cup { ProcBlock(<<"1">>, <<"d">>, v) : v \in NumTexts } }

ParseSources ==
    {EmptyDoc, MalformedDoc}
    \cup { Doc(<<g>>) : g \in GuiasNumeros \cup GuiasItens }
    \cup { Doc(<<SadtCom(<<UmExecutado>>, <<>>), ConsultaCom(UmProc)>>),
           Doc(<<ConsultaCom(NoBlock), ConsultaCom(UmProc)>>),
           Doc(<<ConsultaCom(NoBlock), SadtCom(<<UmExecutado>>, <<>>), ConsultaCom(NoBlock)>>) }

\* the parts of the state a specification does not use stay at rest
PipeIdle ==
    /\ pc = "idle"
    /\ xml_files = <<>>
    /\ strip_zeros_codes = FALSE
    /\ df_xml = <<>>
    /\ erro = ""
    /\ df_demo = <<>>
    /\ tolerance_valor = 0
    /\ fallback_por_descricao = FALSE
    /\ conciliacao = <<>>
    /\ nao_casados = <<>>
    /\ m1 = <<>>
    /\ m2 = <<>>
    /\ tmp = <<>>
    /\ fallback_matches = <<>>
    /\ apos = [df_xml |-> <<>>, df_demo |-> <<>>]

NcIdle == nc = [s |-> <<>>, strip_zeros |-> FALSE, calls |-> 0, ret |-> <<>>, ret_prev |-> <<>>]

PxIdle == px = [called |-> FALSE, source |-> EmptyDoc, raised |-> "", out |-> <<>>]

AnIdle == an = [fn |-> "none", df_conc |-> <<>>]

CmIdle == cm = [called |-> FALSE, codigo |-> <<>>, ret |-> ""]

\* None and an object x, for the session keys that hold a table, a dict or a tuple
None == [set |-> FALSE, v |-> <<>>]

Some(x) == [set |-> TRUE, v |-> x]

\* state/ui_state.py, init_ui_state: the session keys of the denial-report tab as
\* the application creates them (for an item description None is the text "None")
SessaoInicial ==
    [glosas_ready              |-> FALSE,
     glosas_data               |-> None,
     glosas_colmap             |-> None,
     glosas_files_sig          |-> None,
     top_itens_editor_selected |-> "None",
     top_itens_editor_version  |-> 0]

\* the tab before the first event: nothing uploaded, no checkbox edited, no run yet
UiInicial ==
    [glosas_xlsx_up |-> {}, edits |-> <<>>, rerun |-> FALSE, evento |-> "",
     raised |-> "", antes |-> SessaoInicial]

UiIdle == session_state = SessaoInicial /\ ui = UiInicial

InitParse ==
    /\ PipeIdle
    /\ NcIdle
    /\ AnIdle
    /\ CmIdle
    /\ UiIdle
    /\ \E source \in ParseSources :
          px = [called |-> FALSE, source |-> source, raised |-> "", out |-> <<>>]

\* out = parse_itens_tiss_xml(source), or the exception it raises
ParseItens ==
    /\ ~px.called
    /\ px' = [px EXCEPT !.called = TRUE,
                        !.raised = parse_raises(px.source),
                        !.out = IF parse_raises(px.source) = "" THEN parse_itens_tiss_xml(px.source)
                                ELSE <<>>]
    /\ UNCHANGED <<pipeVars, nc, an, cm, uiVars>>

NextParse == ParseItens

SpecParse == InitParse /\ [][NextParse]_vars

\* the executed-procedure and ancillary-expense blocks of the parsed document, in
\* the order in which _itens_sadt emits their items, as (quantity, unit value, total)
FonteSadt(guia) ==
    [i \in 1..Len(guia.procedimentosExecutados) |->
        LET it == guia.procedimentosExecutados[i]
        IN  [qtd  |-> dec(tx(it.quantidadeExecutada)),
             vuni |-> dec(tx(it.valorUnitario)),
             vtot |-> dec(tx(it.valorTotal))]]
    \o
    [j \in 1..Len(guia.outrasDespesas) |->
        LET sv == guia.outrasDespesas[j].servicosExecutados
        IN  IF sv.present
            THEN [qtd  |-> dec(tx(sv.quantidadeExecutada)),
                  vuni |-> dec(tx(sv.valorUnitario)),
                  vtot |-> dec(tx(sv.valorTotal))]
            ELSE [qtd |-> 0, vuni |-> 0, vtot |-> 0]]

\* the parsed document holds one SADT guide and the parser returned its items
ParsedSadt ==
    /\ px.called /\ px.raised = ""
    /\ Len(px.source.guias) = 1
    /\ px.source.guias[1].tipo = "guiaSP-SADT"

\* C7: for every SADT item whose source total is zero while source unit value and
\* quantity are both positive, the emitted total is unit value x quantity; a
\* non-zero source total is emitted unchanged.
C7_BackFill ==
    ParsedSadt =>
        LET fonte == FonteSadt(px.source.guias[1])
        IN  /\ Len(px.out) = Len(fonte)
            /\ \A k \in 1..Len(fonte) :
                  /\ (fonte[k].vtot = 0 /\ fonte[k].vuni > 0 /\ fonte[k].qtd > 0)
                        => px.out[k].valor_total = fonte[k].vuni * fonte[k].qtd
                  /\ fonte[k].vtot # 0 => px.out[k].valor_total = fonte[k].vtot

\* an item with zero total, positive unit value and quantity > 1 was parsed, and so
\* was an item with a non-zero total
C7_Witness ==
    /\ ParsedSadt
    /\ \E k \in 1..Len(px.out) :
          LET f == FonteSadt(px.source.guias[1])[k]
          IN  f.vtot = 0 /\ f.vuni > 1 /\ f.qtd > 1 /\ px.out[k].valor_total = f.vuni * f.qtd
    /\ \E k \in 1..Len(px.out) : FonteSadt(px.source.guias[1])[k].vtot # 0

\* C8: in every emitted item the quantity is positive (it is 1 when the source
\* quantity is not positive), and the total is not zero when the emitted unit value
\* and quantity are both positive.
C8_ValueInvariant ==
    (px.called /\ px.raised = "") =>
        /\ \A k \in 1..Len(px.out) :
              /\ px.out[k].quantidade > 0
              /\ (px.out[k].valor_unitario > 0 /\ px.out[k].quantidade > 0)
                    => px.out[k].valor_total # 0
        /\ ParsedSadt =>
              \A k \in 1..Len(px.out) :
                  FonteSadt(px.source.guias[1])[k].qtd <= 0 => px.out[k].quantidade = 1

\* an item whose source quantity was zero or absent, with positive source unit
\* value and zero source total, was emitted
C8_Witness ==
    /\ ParsedSadt
    /\ \E k \in 1..Len(px.out) :
          LET f == FonteSadt(px.source.guias[1])[k]
          IN  f.qtd = 0 /\ f.vuni > 0 /\ f.vtot = 0 /\ px.out[k].quantidade = 1

\* the CONSULTATION guides of the parsed document, in document order
GuiasConsulta == SelectSeq(px.source.guias, LAMBDA g : g.tipo = "guiaConsulta")

\* the items emitted for CONSULTATION guides
ItensConsulta == SelectSeq(px.out, LAMBDA it : it.tipo_guia = "CONSULTA")

\* the text of an element of the procedure block, "" when block or element is missing
TextoDoBloco(guia, campo) ==
    IF guia.procedimento.present /\ guia.procedimento[campo] # NoEl
    THEN Strip(guia.procedimento[campo]) ELSE <<>>

\* C23: the parser emits exactly one item for each CONSULTATION guide of the
\* document, a guide without procedure block included: kind "procedimento",
\* quantity 1, unit value equal to total, the empty string / zero for what the
\* guide does not give; a missing procedure block never makes the parser raise.
C23_ConsultaOneItem ==
    px.called =>
        /\ px.raised = "" =>
              /\ Len(ItensConsulta) = Len(GuiasConsulta)
              /\ \A k \in 1..Len(GuiasConsulta) :
                    LET it   == ItensConsulta[k]
                        guia == GuiasConsulta[k]
                    IN  /\ it.tipo_item = "procedimento"
                        /\ it.quantidade = 1
                        /\ it.valor_unitario = it.valor_total
                        /\ it.codigo_procedimento = TextoDoBloco(guia, "codigoProcedimento")
                        /\ it.descricao_procedimento = TextoDoBloco(guia, "descricaoProcedimento")
                        /\ TextoDoBloco(guia, "valorProcedimento") = <<>> => it.valor_total = 0
        /\ (/\ px.source.wellformed
            /\ \A i \in 1..Len(px.source.guias) :
                  /\ px.source.guias[i].tipo = "guiaConsulta"
                  /\ ~px.source.guias[i].procedimento.present) => px.raised = ""

\* a document with two CONSULTATION guides, one of them without procedure block,
\* was parsed
C23_Witness ==
    /\ px.called
    /\ px.raised = ""
    /\ Len(GuiasConsulta) = 2
    /\ Len(ItensConsulta) = 2
    /\ ~GuiasConsulta[1].procedimento.present
    /\ GuiasConsulta[2].procedimento.present

\* the document gives this guide a payer guide number: in the guide itself for a
\* CONSULTATION guide, in the authorization block or the header block for SADT
NumeroOperadoraInformado(guia) ==
    IF guia.tipo = "guiaConsulta"
    THEN tx(guia.numeroGuiaOperadora) # <<>>
    ELSE \/ guia.dadosAutorizacao.present
            /\ tx(guia.dadosAutorizacao.numeroGuiaOperadora) # <<>>
         \/ guia.cabecalhoGuia.present
            /\ tx(guia.cabecalhoGuia.numeroGuiaOperadora) # <<>>

\* C9: every emitted item has a non-empty provider or payer guide number, and its
\* payer guide number equals its provider guide number when the document gives
\* no payer number.
C9_AtLeastOneGuideNumber ==
    (px.called /\ px.raised = "" /\ Len(px.source.guias) = 1) =>
        \A k \in 1..Len(px.out) :
            /\ \/ px.out[k].numeroGuiaPrestador # <<>>
               \/ px.out[k].numeroGuiaOperadora # <<>>
            /\ ~NumeroOperadoraInformado(px.source.guias[1])
                  => px.out[k].numeroGuiaOperadora = px.out[k].numeroGuiaPrestador

\* an item was emitted for a guide in which no guide-number element has a text
C9_Witness ==
    /\ px.called /\ px.raised = "" /\ Len(px.source.guias) = 1
    /\ Len(px.out) > 0
    /\ ~NumeroOperadoraInformado(px.source.guias[1])
    /\ tx(px.source.guias[1].numeroGuiaPrestador) = <<>>

(***************************************************************************)
(* The pipeline: build_xml_df on a batch of uploaded documents, then       *)
(* conciliar_itens of the built table against a payment table.             *)
(***************************************************************************)
Upload(name, guias) == [Doc(guias) EXCEPT !.name = name]

Consulta(prest, oper, codigo, valor) ==
    Guia("guiaConsulta", prest, oper, NoBlock, NoBlock,
         ProcBlock(codigo, <<"d">>, Literal(valor)), <<>>, <<>>)

ExecutadoDe(valor) == Executado(UmProc, <<"1">>, Literal(valor), Literal(valor))

\* batches and strip_zeros_codes flags given to build_xml_df
PipeInputs ==
    LET lote(b) == [xml_files |-> b, strip_zeros_codes |-> FALSE]
    IN  { lote(<<Upload("a.xml", <<Consulta(p, o, <<"1">>, v)>>)>>) :
            p \in {NoEl, <<"A">>}, o \in {NoEl, <<"B">>}, v \in 1..MaxNum }
        \cup { lote(<<Upload("a.xml", <<SadtCom(<<ExecutadoDe(v), ExecutadoDe(w)>>, <<>>)>>)>>) :
                 v \in 1..MaxNum, w \in 1..MaxNum }
        \cup { lote(<<Upload("a.xml", <<Consulta(<<"A">>, NoEl, <<"1">>, 1),
                                        Consulta(NoEl, <<"B">>, <<"1">>, 1)>>)>>),
               lote(<<[MalformedDoc EXCEPT !.name = "a.xml"],
                      Upload("b.xml", <<Consulta(<<"A">>, NoEl, <<"1">>, 1)>>)>>) }
        \cup { [xml_files |-> <<Upload("a.xml", <<Consulta(<<"A">>, NoEl, <<"0", ".", "1">>, 1)>>)>>,
                strip_zeros_codes |-> f] : f \in BOOLEAN }

\* payment rows: the key is the payer's guide number and code; a presented value may
\* be missing; vgs are the denied values
PayRows(vgs) ==
    { [chave_demo             |-> g \o <<"_", "_">> \o c,
       numeroGuiaPrestador    |-> g,
       descricao_procedimento |-> d,
       valor_apresentado      |-> va,
       valor_glosa            |-> vg] :
        g \in {<<"A">>, <<"B">>}, c \in {<<"1">>, <<"0", "1">>}, d \in {<<"d">>, <<"e">>},
        va \in {NaN} \cup 0..MaxNum, vg \in vgs }

\* payment tables of at most two rows.  A table is listed once for every pair of
\* rows (the order of two payment rows only permutes the rows of the results); the
\* denied value, which no join looks at, varies in the one-row tables and may be
\* missing there
PayTables ==
    {<<>>} \cup { <<p>> : p \in PayRows({NaN} \cup 0..1) }
           \cup { LET p == CHOOSE x \in S : TRUE
                  IN  IF S = {p} THEN <<p, p>> ELSE <<p, CHOOSE y \in S : y # p>> :
                  S \in { {x, y} : x \in PayRows({1}), y \in PayRows({1}) } }

InitPipe ==
    /\ pc = "idle"
    /\ \E i \in PipeInputs :
          /\ xml_files = i.xml_files
          /\ strip_zeros_codes = i.strip_zeros_codes
    /\ df_xml = <<>>
    /\ erro = ""
    /\ df_demo = <<>>
    /\ tolerance_valor = 0
    /\ fallback_por_descricao = FALSE
    /\ conciliacao = <<>>
    /\ nao_casados = <<>>
    /\ m1 = <<>>
    /\ m2 = <<>>
    /\ tmp = <<>>
    /\ fallback_matches = <<>>
    /\ apos = [df_xml |-> <<>>, df_demo |-> <<>>]
    /\ NcIdle
    /\ PxIdle
    /\ AnIdle
    /\ CmIdle
    /\ UiIdle

\* df_xml = build_xml_df(xml_files, strip_zeros_codes)
BuildXmlDf ==
    /\ pc = "idle"
    /\ LET e == build_xml_df_raises(xml_files)
       IN  /\ erro' = e
           /\ pc' = IF e = "" THEN "built" ELSE "raised"
           /\ df_xml' = IF e = "" THEN build_xml_df(xml_files, strip_zeros_codes) ELSE <<>>
    /\ UNCHANGED <<xml_files, strip_zeros_codes, df_demo, tolerance_valor,
                   fallback_por_descricao, conciliacao, nao_casados, m1, m2, tmp,
                   fallback_matches, apos, nc, px, an, cm, uiVars>>

\* result = conciliar_itens(df_xml, df_demo, tolerance_valor, fallback_por_descricao)
\* on a billed table that has rows (the caller stops on an empty one) and on a
\* payment table of any size
ConciliarItens ==
    /\ pc = "built"
    /\ df_xml # <<>>
    /\ \E demo \in PayTables, tol \in 0..MaxTol, fb \in BOOLEAN :
          LET xml      == WithIndex(df_xml, "xml_index")
              demo_idx == WithIndex(demo, "demo_index")
          IN  /\ df_demo' = demo
              /\ tolerance_valor' = tol
              /\ fallback_por_descricao' = fb
              /\ m1' = conciliar_m1(xml, demo_idx)
              /\ m2' = conciliar_m2(xml, demo_idx, m1')
              /\ tmp' = conciliar_tmp(xml, demo_idx, m2', fb)
              /\ fallback_matches' = conciliar_fallback_matches(tmp', tol)
              /\ conciliacao' = conciliar_conc(Columns(xml), m1', m2', fallback_matches')
              /\ nao_casados' = conciliar_unmatch(m2', fallback_matches')
              /\ apos' = [df_xml  |-> df_xml,
                          df_demo |-> conciliar_df_demo_apos(demo, m2', fb)]
    /\ pc' = "done"
    /\ UNCHANGED <<xml_files, strip_zeros_codes, df_xml, erro, nc, px, an, cm, uiVars>>

Init == InitPipe

Next == BuildXmlDf \/ ConciliarItens

Spec == Init /\ [][Next]_vars

\* the rows of a table whose matched_on tag is not empty
Matched(m) == SelectSeq(m, LAMBDA r : r.matched_on # "")

\* the tags under which the billed item at position i of df_xml is reconciled
TagsOf(i) ==
    {conciliacao[k].matched_on : k \in {k \in 1..Len(conciliacao) : conciliacao[k].xml_index = i}}

\* C1: after conciliar_itens no billed item is in the reconciled table under more
\* than one matched_on tag, and the reconciled table has as many rows as the three
\* tiers matched together.
C1_TierExclusivity ==
    pc = "done" =>
        /\ \A i \in 1..Len(df_xml) : Cardinality(TagsOf(i)) <= 1
        /\ Len(conciliacao) = Len(Matched(m1)) + Len(Matched(m2)) + Len(fallback_matches)

\* a billed item whose provider key and payer key both join a payment row of
\* missing presented value and a payment row of known presented value
C1_Witness ==
    /\ pc = "done"
    /\ \E i \in 1..Len(df_xml) :
          /\ df_xml[i].chave_prest = df_xml[i].chave_oper
          /\ \E j, k \in 1..Len(df_demo) :
                /\ df_demo[j].chave_demo = df_xml[i].chave_prest
                /\ df_demo[k].chave_demo = df_xml[i].chave_prest
                /\ ~notna(df_demo[j].valor_apresentado)
                /\ notna(df_demo[k].valor_apresentado)

\* C2: with the fallback enabled, a tier-3 candidate whose presented value is not
\* missing is accepted when |valor_total - valor_apresentado| equals the tolerance
\* and rejected when it exceeds the tolerance.
C2_ToleranceBoundary ==
    (pc = "done" /\ fallback_por_descricao) =>
        \A k \in 1..Len(tmp) :
            LET r        == tmp[k]
                diff     == Abs(r.valor_total - r.valor_apresentado)
                accepted == \E j \in 1..Len(fallback_matches) :
                                /\ fallback_matches[j] = r @@ [matched_on |-> "descricao+valor"]
                                /\ \E c \in 1..Len(conciliacao) :
                                      /\ conciliacao[c].matched_on = "descricao+valor"
                                      /\ conciliacao[c].xml_index = r.xml_index
                                      /\ conciliacao[c].demo_index = r.demo_index
            IN  notna(r.valor_apresentado) =>
                    /\ diff = tolerance_valor => accepted
                    /\ diff > tolerance_valor => ~accepted

\* a candidate exactly on the tolerance (which is not zero) was accepted and
\* another one above it was rejected
C2_Witness ==
    /\ pc = "done" /\ fallback_por_descricao /\ tolerance_valor > 0
    /\ \E k \in 1..Len(tmp) :
          /\ notna(tmp[k].valor_apresentado)
          /\ Abs(tmp[k].valor_total - tmp[k].valor_apresentado) = tolerance_valor
          /\ \E j \in 1..Len(fallback_matches) :
                fallback_matches[j].xml_index = tmp[k].xml_index
    /\ \E k \in 1..Len(tmp) :
          /\ notna(tmp[k].valor_apresentado)
          /\ Abs(tmp[k].valor_total - tmp[k].valor_apresentado) > tolerance_valor

\* C3: in every reconciled row glosa_pct is valor_glosa / valor_apresentado when
\* valor_apresentado > 0 and 0 otherwise; it is never the result of a division by
\* zero and never NaN.
C3_RatioGuard ==
    pc = "done" =>
        \A k \in 1..Len(conciliacao) :
            LET r == conciliacao[k]
            IN  /\ r.glosa_pct.den # 0
                /\ r.glosa_pct.num # NaN /\ r.glosa_pct.den # NaN
                /\ r.valor_apresentado > 0 =>
                      r.glosa_pct.num * r.valor_apresentado = r.valor_glosa * r.glosa_pct.den
                /\ ~(r.valor_apresentado > 0) => r.glosa_pct.num = 0
                /\ r.valor_apresentado = 0 => r.glosa_pct.num = 0

\* a reconciled row has a positive presented value and a missing denied value
C3_Witness ==
    /\ pc = "done"
    /\ \E k \in 1..Len(conciliacao) :
          conciliacao[k].valor_apresentado > 0 /\ ~notna(conciliacao[k].valor_glosa)

\* the end-to-end scenario: one document holding one CONSULTATION guide with a
\* procedure block (guide G, code C, total V), built with the default
\* strip_zeros_codes, and one payment row with key G + "__" + normalize_code(C),
\* presented value V and denied value 0
EndToEndScenario ==
    /\ pc = "done"
    /\ ~strip_zeros_codes
    /\ Len(xml_files) = 1 /\ xml_files[1].wellformed
    /\ Len(xml_files[1].guias) = 1
    /\ xml_files[1].guias[1].tipo = "guiaConsulta"
    /\ xml_files[1].guias[1].procedimento.present
    /\ Len(df_demo) = 1
    /\ LET guia == xml_files[1].guias[1]
           G    == tx(guia.numeroGuiaPrestador)
           C    == tx(guia.procedimento.codigoProcedimento)
           V    == dec(tx(guia.procedimento.valorProcedimento))
       IN  /\ df_demo[1].chave_demo = G \o <<"_", "_">> \o normalize_code(C, FALSE)
           /\ df_demo[1].valor_apresentado = V
           /\ df_demo[1].valor_glosa = 0

\* C4: the end-to-end scenario yields exactly one reconciled row, matched on the
\* provider key, with value difference 0 and denial ratio 0, and no unmatched row.
C4_EndToEnd ==
    EndToEndScenario =>
        /\ Len(conciliacao) = 1
        /\ conciliacao[1].matched_on = "prestador"
        /\ conciliacao[1].apresentado_diff = 0
        /\ conciliacao[1].glosa_pct.num = 0 /\ conciliacao[1].glosa_pct.den # 0
        /\ nao_casados = <<>>

\* the scenario happened with a code that normalization changes
C4_Witness ==
    /\ EndToEndScenario
    /\ df_xml[1].codigo_procedimento # df_xml[1].codigo_procedimento_norm
    /\ Len(conciliacao) = 1

\* the columns that identify a line item in the unmatched report
ItemKey(r) == <<r.arquivo, r.numeroGuiaPrestador, r.codigo_procedimento, r.valor_total>>

\* C5: the unmatched table has at most one row per (arquivo, numeroGuiaPrestador,
\* codigo_procedimento, valor_total); two billed items equal in these four columns
\* of which nothing is reconciled give exactly one unmatched row.
C5_UnmatchedDedup ==
    pc = "done" =>
        /\ \A i, j \in 1..Len(nao_casados) :
              ItemKey(nao_casados[i]) = ItemKey(nao_casados[j]) => i = j
        /\ (/\ Len(df_xml) = 2
            /\ ItemKey(df_xml[1]) = ItemKey(df_xml[2])
            /\ conciliacao = <<>>) => Len(nao_casados) = 1

\* two billed items equal in the four columns, joined to a payment row of missing
\* presented value, were left unmatched and reported once
C5_Witness ==
    /\ pc = "done"
    /\ Len(df_xml) = 2 /\ ItemKey(df_xml[1]) = ItemKey(df_xml[2])
    /\ Len(SelectSeq(m2, LAMBDA r : r.matched_on = "")) > 1
    /\ Len(nao_casados) = 1

\* C15: no reconciled row has a missing presented value; a payment row of missing
\* presented value is in no reconciled row, whatever tier its key or its guide
\* number and description join it in; in tier 3 a candidate of missing presented
\* value is rejected even when the billed total is within the tolerance of zero.
C15_MissingPresentedNoMatch ==
    pc = "done" =>
        /\ \A k \in 1..Len(conciliacao) :
              /\ notna(conciliacao[k].valor_apresentado)
              /\ notna(conciliacao[k].demo_index)
              /\ notna(df_demo[conciliacao[k].demo_index].valor_apresentado)
        /\ \A k \in 1..Len(tmp) :
              ~notna(tmp[k].valor_apresentado) =>
                  ~\E j \in 1..Len(fallback_matches) :
                      /\ fallback_matches[j].xml_index = tmp[k].xml_index
                      /\ fallback_matches[j].demo_index = tmp[k].demo_index

\* a payment row of missing presented value carries the key of a billed item, went
\* through tiers 1 and 2 and, with the fallback on, was a tier-3 candidate whose
\* billed total is within the tolerance of zero
C15_Witness ==
    /\ pc = "done" /\ fallback_por_descricao
    /\ \E k \in 1..Len(tmp) :
          /\ notna(tmp[k].demo_index)
          /\ ~notna(tmp[k].valor_apresentado)
          /\ tmp[k].valor_total <= tolerance_valor
          /\ df_demo[tmp[k].demo_index].chave_demo = df_xml[tmp[k].xml_index].chave_prest
          /\ \E i \in 1..Len(m1) : m1[i].demo_index = tmp[k].demo_index
          /\ \E i \in 1..Len(m2) : m2[i].demo_index = tmp[k].demo_index

CandidatosCom(fallback) ==
    conciliar_tmp(WithIndex(df_xml, "xml_index"), WithIndex(df_demo, "demo_index"),
                  m2, fallback)

ConciliacaoCom(t) ==
    conciliar_conc(Columns(WithIndex(df_xml, "xml_index")), m1, m2,
                   conciliar_fallback_matches(CandidatosCom(fallback_por_descricao), t))

NaoCasadosCom(t) ==
    conciliar_unmatch(m2, conciliar_fallback_matches(CandidatosCom(fallback_por_descricao), t))

\* C18: with the fallback off no reconciled row is tagged "descricao+valor", and
\* the reconciled and the unmatched table are the ones every other tolerance gives
\* for the same two tables.
C18_Tier3OptIn ==
    (pc = "done" /\ ~fallback_por_descricao) =>
        /\ \A k \in 1..Len(conciliacao) : conciliacao[k].matched_on # "descricao+valor"
        /\ \A t \in 0..MaxTol :
              /\ ConciliacaoCom(t) = conciliacao
              /\ NaoCasadosCom(t) = nao_casados

\* the fallback is off, and with it on the same tables have a tier-3 candidate that
\* one tolerance accepts and another rejects
C18_Witness ==
    /\ pc = "done" /\ ~fallback_por_descricao
    /\ nao_casados # <<>>
    /\ \E t, u \in 0..MaxTol :
          /\ conciliar_fallback_matches(CandidatosCom(TRUE), t) # <<>>
          /\ conciliar_fallback_matches(CandidatosCom(TRUE), u) = <<>>

\* the billed item at position i has, under the key of column col, a payment row
\* whose presented value is not missing
TemPagamento(i, col) ==
    \E j \in 1..Len(df_demo) :
        /\ df_demo[j].chave_demo = df_xml[i][col]
        /\ notna(df_demo[j].valor_apresentado)

\* the billed item at position i went through the tier-2 join
NoTier2(i) == \E k \in 1..Len(m2) : m2[k].xml_index = i

\* C20: tier 2 joins only billed items that tier 1 left without a match; an item
\* whose chave_prest is the key of a payment row of known presented value is
\* reconciled under "prestador" only and is not joined again on chave_oper; an item
\* without such a row whose chave_oper is the key of one is reconciled under
\* "operadora".
C20_StrictTierOrder ==
    pc = "done" =>
        \A i \in 1..Len(df_xml) :
            /\ TemPagamento(i, "chave_prest") =>
                  /\ TagsOf(i) = {"prestador"}
                  /\ ~NoTier2(i)
            /\ (~TemPagamento(i, "chave_prest") /\ TemPagamento(i, "chave_oper")) =>
                  /\ TagsOf(i) = {"operadora"}
                  /\ NoTier2(i)

\* a billed item that tier 1 matched and the tier-2 join took up again
C20_Witness ==
    /\ pc = "done"
    /\ \E i \in 1..Len(df_xml) : TemPagamento(i, "chave_prest") /\ NoTier2(i)

\* the billed item at position i has no payment row of known presented value under
\* its provider key nor under its payer key
SemPagamento(i) == ~TemPagamento(i, "chave_prest") /\ ~TemPagamento(i, "chave_oper")

\* the billed item at position i was accepted by tier 3
AceitoTier3(i) == \E j \in 1..Len(fallback_matches) : fallback_matches[j].xml_index = i

\* C21: every row of the unmatched table is a billed item that matched under
\* neither key; no item accepted by tier 3 is in the unmatched table; with the
\* fallback off, or with nothing accepted by tier 3, the unmatched table is the
\* items that matched under neither key, one row for each distinct (arquivo,
\* numeroGuiaPrestador, codigo_procedimento, valor_total).
C21_UnmatchedSet ==
    pc = "done" =>
        /\ \A k \in 1..Len(nao_casados) :
              /\ SemPagamento(nao_casados[k].xml_index)
              /\ ~AceitoTier3(nao_casados[k].xml_index)
        /\ fallback_matches = <<>> =>
              LET sobras == {ItemKey(df_xml[i]) : i \in {i \in 1..Len(df_xml) : SemPagamento(i)}}
              IN  /\ {ItemKey(nao_casados[k]) : k \in 1..Len(nao_casados)} = sobras
                  /\ Len(nao_casados) = Cardinality(sobras)

\* a billed item that tier 1 matched is a row of the unmatched table
C21_Witness ==
    /\ pc = "done"
    /\ \E k \in 1..Len(nao_casados) : TemPagamento(nao_casados[k].xml_index, "chave_prest")

\* the guide join value of a billed item: its trimmed provider guide number, its
\* trimmed payer guide number when the provider one is blank
GuiaDoItem(x) ==
    IF Strip(x.numeroGuiaPrestador) # <<>> THEN Strip(x.numeroGuiaPrestador)
    ELSE Strip(x.numeroGuiaOperadora)

\* C24: in tier 3 the guide join value of a billed item is its trimmed provider
\* guide number, or its trimmed payer guide number only when the provider one is
\* blank; the join value of a payment row is its provider guide number; a tier-3
\* match has equal guide join values, equal descriptions and a value difference
\* within the tolerance.
C24_Tier3GuideAsymmetry ==
    pc = "done" =>
        /\ \A k \in 1..Len(tmp) :
              /\ df_xml[tmp[k].xml_index].numeroGuiaPrestador # NaNText
                    => tmp[k].guia_join = GuiaDoItem(df_xml[tmp[k].xml_index])
              /\ notna(tmp[k].demo_index)
                    => tmp[k].guia_join = Strip(df_demo[tmp[k].demo_index].numeroGuiaPrestador)
        /\ \A k \in 1..Len(fallback_matches) :
              LET x == df_xml[fallback_matches[k].xml_index]
                  d == df_demo[fallback_matches[k].demo_index]
              IN  /\ GuiaDoItem(x) = Strip(d.numeroGuiaPrestador)
                  /\ x.descricao_procedimento = d.descricao_procedimento
                  /\ notna(d.valor_apresentado)
                  /\ x.valor_total - d.valor_apresentado <= tolerance_valor
                  /\ d.valor_apresentado - x.valor_total <= tolerance_valor

\* tier 3 matched an item that has both guide numbers through its provider number,
\* and an item without provider number through its payer number
C24_Witness ==
    /\ pc = "done"
    /\ \E k \in 1..Len(fallback_matches) :
          LET x == df_xml[fallback_matches[k].xml_index]
          IN  \/ x.numeroGuiaPrestador # <<>> /\ x.numeroGuiaOperadora # x.numeroGuiaPrestador
              \/ x.numeroGuiaPrestador = <<>> /\ x.numeroGuiaOperadora # <<>>

\* C25: the (arquivo, numeroGuiaPrestador, codigo_procedimento, valor_total) of
\* every billed item is in the reconciled table or in the unmatched table.
C25_Conservation ==
    pc = "done" =>
        \A i \in 1..Len(df_xml) :
            \/ \E k \in 1..Len(conciliacao) : ItemKey(conciliacao[k]) = ItemKey(df_xml[i])
            \/ \E k \in 1..Len(nao_casados) : ItemKey(nao_casados[k]) = ItemKey(df_xml[i])

\* tier 3 resolved one billed item and left unresolved another item of the same
\* chave_prest and another total, which is a row of neither table
C25_Witness ==
    /\ pc = "done"
    /\ \E i \in 1..Len(df_xml), j \in 1..Len(df_xml) :
          /\ i # j
          /\ df_xml[i].chave_prest = df_xml[j].chave_prest
          /\ AceitoTier3(i)
          /\ ~AceitoTier3(j)
          /\ df_xml[i].valor_total # df_xml[j].valor_total
          /\ \A k \in 1..Len(conciliacao) : conciliacao[k].xml_index # j
          /\ \A k \in 1..Len(nao_casados) : nao_casados[k].xml_index # j

\* C26: no billed item is both in the reconciled table and in the unmatched table.
C26_Disjoint ==
    pc = "done" =>
        \A k \in 1..Len(conciliacao), u \in 1..Len(nao_casados) :
            conciliacao[k].xml_index # nao_casados[u].xml_index

\* a billed item whose key joins a payment row of missing presented value and one
\* of known presented value is reconciled and is a row of the unmatched table
C26_Witness ==
    /\ pc = "done"
    /\ \E k \in 1..Len(conciliacao), u \in 1..Len(nao_casados), a \in 1..Len(df_demo),
          b \in 1..Len(df_demo) :
          /\ conciliacao[k].xml_index = nao_casados[u].xml_index
          /\ df_demo[a].chave_demo = conciliacao[k].chave_prest
          /\ df_demo[b].chave_demo = conciliacao[k].chave_prest
          /\ ~notna(df_demo[a].valor_apresentado)
          /\ notna(df_demo[b].valor_apresentado)

\* the payment rows of known presented value whose key is the provider key of the
\* billed item at position i
PagamentosDe(i) ==
    {j \in 1..Len(df_demo) : /\ df_demo[j].chave_demo = df_xml[i].chave_prest
                             /\ notna(df_demo[j].valor_apresentado)}

\* the rows of the reconciled table that belong to the billed item at position i
LinhasConciliadas(i) == {k \in 1..Len(conciliacao) : conciliacao[k].xml_index = i}

\* C27: matching does not consume payment rows.  A billed item matched in tier 1
\* has as many reconciled rows as there are payment rows of known presented value
\* whose chave_demo is its chave_prest, and two billed items of the same key are
\* both reconciled against the same payment row.
C27_PaymentRowsNotConsumed ==
    pc = "done" =>
        /\ \A i \in 1..Len(df_xml) :
              PagamentosDe(i) # {} =>
                  Cardinality(LinhasConciliadas(i)) = Cardinality(PagamentosDe(i))
        /\ \A i \in 1..Len(df_xml) :
              \A j \in PagamentosDe(i) :
                  \E k \in LinhasConciliadas(i) :
                      conciliacao[k].demo_index = j /\ conciliacao[k].matched_on = "prestador"

\* two billed items of the same provider key were reconciled against one payment row
C27_Witness ==
    /\ pc = "done"
    /\ \E i \in 1..Len(df_xml), h \in 1..Len(df_xml) :
          /\ i # h
          /\ df_xml[i].chave_prest = df_xml[h].chave_prest
          /\ \E k \in LinhasConciliadas(i), l \in LinhasConciliadas(h) :
                 /\ conciliacao[k].demo_index = conciliacao[l].demo_index
                 /\ conciliacao[k].matched_on = "prestador"
                 /\ conciliacao[l].matched_on = "prestador"

\* what a reconciled row pairs: billed item, payment row and tag
Par(r) == <<r.xml_index, r.demo_index, r.matched_on>>

Pares(conc) == {Par(conc[k]) : k \in 1..Len(conc)}

\* the pairs of a set that tiers 1 and 2 made
PorChave(pares) == {p \in pares : p[3] \in {"prestador", "operadora"}}

Itens(unmatch) == {ItemKey(unmatch[k]) : k \in 1..Len(unmatch)}

\* the two results conciliar_itens gives for the tables of this state under
\* tolerance t with the fallback on (the joins m1, m2 and tmp take no tolerance)
ParesCom(t) ==
    Pares(conciliar_conc(Columns(WithIndex(df_xml, "xml_index")), m1, m2,
                         conciliar_fallback_matches(tmp, t)))

ItensNaoCasadosCom(t) == Itens(conciliar_unmatch(m2, conciliar_fallback_matches(tmp, t)))

\* C28: for the same two tables with the fallback on and tolerances t1 <= t2, every
\* row reconciled with t1 is reconciled with t2 under the same tag, the rows tagged
\* "prestador" or "operadora" are the same, and every item unmatched with t2 is
\* unmatched with t1.  t2 is the tolerance of the run, t1 every smaller one.
C28_ToleranceMonotone ==
    (pc = "done" /\ fallback_por_descricao) =>
        /\ ParesCom(tolerance_valor) = Pares(conciliacao)
        /\ ItensNaoCasadosCom(tolerance_valor) = Itens(nao_casados)
        /\ \A t1 \in 0..(tolerance_valor - 1) :
              LET pares == ParesCom(t1)
              IN  /\ pares \subseteq Pares(conciliacao)
                  /\ PorChave(pares) = PorChave(Pares(conciliacao))
                  /\ Itens(nao_casados) \subseteq ItensNaoCasadosCom(t1)

\* the run with the largest tolerance reconciles in tier 3 a pair that tolerance 0
\* reconciles too and a pair that tolerance 0 leaves out
C28_Witness ==
    /\ pc = "done"
    /\ fallback_por_descricao
    /\ tolerance_valor = MaxTol
    /\ ParesCom(0) # PorChave(ParesCom(0))
    /\ ParesCom(0) # ParesCom(MaxTol)

(***************************************************************************)
(* build_xml_df in isolation: batches of at most two files, of every kind  *)
(* the function accepts (uploaded stream, stream without a name, Path,     *)
(* str path), parseable or not.                                            *)
(***************************************************************************)
\* a file given as a Path (has_name) or as a str path; name is the path's file name
Caminho(name, has_name, wellformed, guias) ==
    [has_read |-> FALSE, has_name |-> has_name, name |-> name,
     wellformed |-> wellformed, guias |-> guias]

BuildFiles ==
    { Upload("a.xml", <<Consulta(<<"A">>, NoEl, c, 1)>>) :
        c \in {<<"1">>, <<"0", ".", "1">>, <<"0", "\n", "1">>} }
    \cup { Upload("b.xml", <<SadtCom(<<ExecutadoDe(1), ExecutadoDe(2)>>, <<>>)>>),
           Upload("e.xml", <<>>),
           Upload("x.xml", <<ConsultaCom(ProcBlock(<<"1">>, <<"d">>, <<"x">>))>>),
           [MalformedDoc EXCEPT !.name = "m.xml"],
           [MalformedDoc EXCEPT !.has_name = FALSE],
           Caminho("p.xml", TRUE, FALSE, <<>>),
           Caminho("s.xml", FALSE, FALSE, <<>>),
           Caminho("q.xml", TRUE, TRUE, <<Consulta(<<"A">>, NoEl, <<"1">>, 1)>>) }

BuildInputs ==
    { [xml_files |-> b, strip_zeros_codes |-> z] :
        b \in {<<>>} \cup { <<f>> : f \in BuildFiles }
                     \cup { <<f, g>> : f \in BuildFiles, g \in BuildFiles },
        z \in BOOLEAN }

InitBuild ==
    /\ pc = "idle"
    /\ \E i \in BuildInputs :
          /\ xml_files = i.xml_files
          /\ strip_zeros_codes = i.strip_zeros_codes
    /\ df_xml = <<>>
    /\ erro = ""
    /\ df_demo = <<>>
    /\ tolerance_valor = 0
    /\ fallback_por_descricao = FALSE
    /\ conciliacao = <<>>
    /\ nao_casados = <<>>
    /\ m1 = <<>>
    /\ m2 = <<>>
    /\ tmp = <<>>
    /\ fallback_matches = <<>>
    /\ apos = [df_xml |-> <<>>, df_demo |-> <<>>]
    /\ NcIdle
    /\ PxIdle
    /\ AnIdle
    /\ CmIdle
    /\ UiIdle

NextBuild == BuildXmlDf

SpecBuild == InitBuild /\ [][NextBuild]_vars

\* the name of a file of the batch ("upload.xml" for a stream that has none)
NomeDoArquivo(f) == IF f.has_read /\ ~f.has_name THEN "upload.xml" ELSE f.name

\* what the batch owes to the table, file by file: the items of a document that
\* parses, one error record with file name and message for one that does not
LinhasDevidas(files) ==
    ConcatAll([i \in 1..Len(files) |->
        IF parse_raises(files[i]) = ""
        THEN parse_itens_tiss_xml(files[i])
        ELSE << [arquivo |-> NomeDoArquivo(files[i]), erro |-> parse_raises(files[i])] >>])

\* C10: for every batch build_xml_df returns without raising; its table has, in
\* order, the items of every document that parses and exactly one error record,
\* carrying file name and message, for every document that does not.
C10_ParseFailureLocalized ==
    pc # "idle" =>
        /\ erro = ""
        /\ LET devidas == LinhasDevidas(xml_files)
           IN  /\ Len(df_xml) = Len(devidas)
               /\ \A k \in 1..Len(devidas) :
                     IF "erro" \in DOMAIN devidas[k]
                     THEN /\ "erro" \in DOMAIN df_xml[k]
                          /\ df_xml[k].erro = devidas[k].erro
                          /\ df_xml[k].arquivo = devidas[k].arquivo
                     ELSE \A c \in DOMAIN devidas[k] \ {"arquivo"} :
                              df_xml[k][c] = devidas[k][c]

\* build_xml_df was called on a batch in which no document parses
C10_Witness ==
    /\ pc # "idle"
    /\ xml_files # <<>>
    /\ \A i \in 1..Len(xml_files) : parse_raises(xml_files[i]) # ""

\* the number of items a document holds: one for each guiaConsulta, one for each
\* procedimentoExecutado and each despesa of a guiaSP-SADT
RECURSIVE ItensDosGuias(_)
ItensDosGuias(guias) ==
    IF guias = <<>> THEN 0
    ELSE LET guia == Head(guias)
         IN  (IF guia.tipo = "guiaConsulta" THEN 1
              ELSE Len(guia.procedimentosExecutados) + Len(guia.outrasDespesas))
             + ItensDosGuias(Tail(guias))

\* the rows of the billed-item table that are items (not error records)
EhItem(r) == "erro" \notin DOMAIN r \/ r.erro = Missing("erro")

ItensDaTabela(df) == SelectSeq(df, EhItem)

RECURSIVE ItensDoLote(_)
ItensDoLote(files) ==
    IF files = <<>> THEN 0
    ELSE (IF Head(files).wellformed THEN ItensDosGuias(Head(files).guias) ELSE 0)
         + ItensDoLote(Tail(files))

\* a well-formed document with a numeric text that is not a number
TextoNaoNumerico(f) == f.wellformed /\ parse_raises(f) = "InvalidOperation"

\* C14: a quantity, unit value or total value that is not a valid number never
\* raises and never loses the item or its document: build_xml_df returns, the
\* table holds every item of every well-formed document of the batch, and no
\* error record stands for a document whose only fault is such a text.
C14_NumericCoercion ==
    (pc # "idle" /\ \E i \in 1..Len(xml_files) : TextoNaoNumerico(xml_files[i])) =>
        /\ erro = ""
        /\ Len(ItensDaTabela(df_xml)) = ItensDoLote(xml_files)
        /\ \A i \in 1..Len(xml_files) :
              TextoNaoNumerico(xml_files[i]) =>
                  \A k \in 1..Len(df_xml) :
                      df_xml[k].arquivo = NomeDoArquivo(xml_files[i])
                          => EhItem(df_xml[k])

\* a batch of a sound document and one whose valorProcedimento is the text "x":
\* the table was built, and the second document left an error record in it
C14_Witness ==
    /\ pc # "idle"
    /\ erro = ""
    /\ Len(xml_files) = 2
    /\ parse_raises(xml_files[1]) = ""
    /\ TextoNaoNumerico(xml_files[2])
    /\ Len(ItensDaTabela(df_xml)) < Len(df_xml)

\* the text a guide-number cell contributes to a key: its trimmed text, the empty
\* string when the cell is missing
GuiaNaChave(v) == IF v = NaNText THEN <<>> ELSE Strip(v)

\* C22: every row of a table built by build_xml_df has codigo_procedimento_norm =
\* normalize_code(codigo_procedimento, strip_zeros_codes), chave_prest =
\* trim(numeroGuiaPrestador) + "__" + codigo_procedimento_norm and chave_oper =
\* trim(numeroGuiaOperadora) + "__" + codigo_procedimento_norm, a missing guide
\* number contributing the empty string; an empty list of files gives an empty table.
C22_KeyComposition ==
    (pc = "built" /\ erro = "") =>
        /\ \A i \in 1..Len(df_xml) :
              LET r == df_xml[i]
              IN  /\ r.codigo_procedimento_norm =
                        normalize_code(AsStr(r.codigo_procedimento), strip_zeros_codes)
                  /\ r.chave_prest = GuiaNaChave(r.numeroGuiaPrestador) \o <<"_", "_">>
                                        \o r.codigo_procedimento_norm
                  /\ r.chave_oper = GuiaNaChave(r.numeroGuiaOperadora) \o <<"_", "_">>
                                        \o r.codigo_procedimento_norm
        /\ xml_files = <<>> => df_xml = <<>>

\* a built table with a row whose normalized code starts with white space
C22_Witness ==
    /\ pc = "built"
    /\ erro = ""
    /\ \E i \in 1..Len(df_xml) :
          /\ df_xml[i].codigo_procedimento_norm # <<>>
          /\ Head(df_xml[i].codigo_procedimento_norm) \in Whitespace

(***************************************************************************)
(* normalize_code in isolation: one code text, normalized and then         *)
(* normalized again with the same flag.                                    *)
(***************************************************************************)
\* one representative per character class: zero, other digit, punctuation,
\* blank removed by the regular expression, whitespace that is not
CodeAlphabet == {"0", "5", ".", " ", "\n"}

CodeTexts == StringsUpTo(CodeAlphabet, MaxLen)

InitNorm ==
    /\ PipeIdle
    /\ PxIdle
    /\ AnIdle
    /\ CmIdle
    /\ UiIdle
    /\ \E s \in CodeTexts, f \in BOOLEAN :
          nc = [s |-> s, strip_zeros |-> f, calls |-> 0, ret |-> <<>>, ret_prev |-> <<>>]

\* normalize_code(s, strip_zeros), then normalize_code of the returned text
NormalizeCode ==
    /\ nc.calls < 2
    /\ nc' = [nc EXCEPT !.calls = @ + 1,
                        !.ret = normalize_code(IF nc.calls = 0 THEN nc.s ELSE nc.ret,
                                               nc.strip_zeros),
                        !.ret_prev = nc.ret]
    /\ UNCHANGED <<pipeVars, px, an, cm, uiVars>>

NextNorm == NormalizeCode

SpecNorm == InitNorm /\ [][NextNorm]_vars

\* C6: normalize_code is idempotent for every code text and both flag values:
\* normalizing the result again with the same flag returns it unchanged.
C6_Idempotent == nc.calls = 2 => nc.ret = nc.ret_prev

\* a second call has been made on a code that held whitespace other than blank/tab
C6_Witness ==
    /\ nc.calls = 2
    /\ \E i \in 1..Len(nc.s) : nc.s[i] = "\n"

(***************************************************************************)
(* core/utils.py: categorizar_motivo_ans                                   *)
(***************************************************************************)
\* str.startswith(prefix)
startswith(s, prefix) == Len(s) >= Len(prefix) /\ SubSeq(s, 1, Len(prefix)) = prefix

\* variant of the taxonomy whose audit rule takes every code that starts with "2"
categorizar_motivo_ans_prefixo2(codigo) ==
    LET c == Strip(AsStr(codigo))
    IN  IF c \in {<<"1","0","0","1">>, <<"1","0","0","2">>, <<"1","0","0","3">>,
                  <<"1","0","0","6">>, <<"1","0","0","9">>}
        THEN "Cadastro/Elegibilidade"
        ELSE IF c \in {<<"1","2","0","1">>, <<"1","2","0","2">>, <<"1","2","0","5">>,
                       <<"1","2","0","9">>}
        THEN "Autorização/SADT"
        ELSE IF c \in {<<"1","8","0","1">>, <<"1","8","0","2">>, <<"1","8","0","5">>,
                       <<"1","8","0","6">>}
        THEN "Tabela/Preços"
        ELSE IF startswith(c, <<"2">>)
        THEN "Auditoria Médica/Técnica"
        ELSE IF c \in {<<"2","5","0","1">>, <<"2","5","0","5">>, <<"2","5","0","9">>}
        THEN "Documentação/Físico"
        ELSE "Outros/Administrativa"

\* categorizar_motivo_ans(codigo): str(codigo).strip(), then the first rule that
\* applies, in the order of the source
categorizar_motivo_ans(codigo) ==
    LET c == Strip(AsStr(codigo))
    IN  IF c \in {<<"1","0","0","1">>, <<"1","0","0","2">>, <<"1","0","0","3">>,
                  <<"1","0","0","6">>, <<"1","0","0","9">>}
        THEN "Cadastro/Elegibilidade"
        ELSE IF c \in {<<"1","2","0","1">>, <<"1","2","0","2">>, <<"1","2","0","5">>,
                       <<"1","2","0","9">>}
        THEN "Autorização/SADT"
        ELSE IF c \in {<<"1","8","0","1">>, <<"1","8","0","2">>, <<"1","8","0","5">>,
                       <<"1","8","0","6">>}
        THEN "Tabela/Preços"
        ELSE IF startswith(c, <<"2","0">>) \/ startswith(c, <<"2","2">>)
        THEN "Auditoria Médica/Técnica"
        ELSE IF c \in {<<"2","5","0","1">>, <<"2","5","0","5">>, <<"2","5","0","9">>}
        THEN "Documentação/Físico"
        ELSE "Outros/Administrativa"

(***************************************************************************)
(* core/analytics.py                                                       *)
(*                                                                         *)
(* The reconciled table given to the analytics functions has the columns   *)
(* they read: codigo_procedimento, descricao_procedimento,                 *)
(* valor_apresentado, valor_glosa, valor_pago, motivo_glosa_codigo,        *)
(* motivo_glosa_descricao, glosa_pct and (when the payment table had it)   *)
(* competencia.                                                            *)
(***************************************************************************)
\* the values of column c of rows that are not missing, in order
Valores(rows, c) ==
    LET nn == SelectSeq(rows, LAMBDA r : notna(r[c]))
    IN  [i \in 1..Len(nn) |-> nn[i][c]]

\* Series.sum(): missing values are skipped
RECURSIVE SumSeq(_)
SumSeq(xs) == IF xs = <<>> THEN 0 ELSE Head(xs) + SumSeq(Tail(xs))

SumCol(rows, c) == SumSeq(Valores(rows, c))

\* the numbers of xs in ascending order
RECURSIVE Inserted(_, _)
Inserted(x, sorted) ==
    IF sorted = <<>> THEN <<x>>
    ELSE IF x <= Head(sorted) THEN <<x>> \o sorted
    ELSE <<Head(sorted)>> \o Inserted(x, Tail(sorted))

RECURSIVE Sorted(_)
Sorted(xs) == IF xs = <<>> THEN <<>> ELSE Inserted(Head(xs), Sorted(Tail(xs)))

\* Series.quantile(a / 4) of the values xs (at least one), with the linear
\* interpolation pandas uses; the result is held in quarters (4 * quantile), which
\* is exact for whole values
quantile(xs, a) ==
    LET sorted == Sorted(xs)
        pos    == (Len(xs) - 1) * a
        lo     == pos \div 4 + 1
        frac   == pos % 4
    IN  4 * sorted[lo] + (IF frac = 0 THEN 0 ELSE frac * (sorted[lo + 1] - sorted[lo]))

\* variant of the fence test that also flags a value lying on a fence
is_outlier_fechado(valor_apresentado, q1, q3, iqr, k) ==
    \/ 4 * k.den * valor_apresentado >= k.den * q3 + k.num * iqr
    \/ 4 * k.den * valor_apresentado <= k.den * q1 - k.num * iqr

\* "(valor_apresentado > q3 + k*iqr) | (valor_apresentado < q1 - k*iqr)", with q1,
\* q3 and iqr in quarters and k the fraction k.num / k.den
is_outlier(valor_apresentado, q1, q3, iqr, k) ==
    \/ 4 * k.den * valor_apresentado > k.den * q3 + k.num * iqr
    \/ 4 * k.den * valor_apresentado < k.den * q1 - k.num * iqr

\* base of outliers_por_procedimento after the merge with stats and the flag: the
\* rows without a missing code, description or presented value, each with the
\* median, quartiles and interquartile range of its (code, description) group
outliers_base(df_conc, k) ==
    LET cols  == {"codigo_procedimento", "descricao_procedimento", "valor_apresentado"}
        base  == SelectSeq(Project(df_conc, cols), LAMBDA r :
                     /\ r.codigo_procedimento # NaNText
                     /\ r.descricao_procedimento # NaNText
                     /\ notna(r.valor_apresentado))
        grupo(r) == Valores(SelectSeq(base, LAMBDA x :
                        /\ x.codigo_procedimento = r.codigo_procedimento
                        /\ x.descricao_procedimento = r.descricao_procedimento),
                        "valor_apresentado")
        stats(r) == [p50 |-> quantile(grupo(r), 2),
                     q1  |-> quantile(grupo(r), 1),
                     q3  |-> quantile(grupo(r), 3),
                     iqr |-> quantile(grupo(r), 3) - quantile(grupo(r), 1)]
        flag(r)  == [is_outlier |-> is_outlier(r.valor_apresentado, r.q1, r.q3, r.iqr, k)]
    IN  [i \in 1..Len(base) |-> LET r == base[i] @@ stats(base[i]) IN r @@ flag(r)]

\* "return base[base['is_outlier']].copy()"
outliers_por_procedimento(df_conc, k) ==
    SelectSeq(outliers_base(df_conc, k), LAMBDA r : r.is_outlier)

\* code-point order of the characters used in group keys
Collation == <<" ", "0", "1", "2", "3", "4", "5", "6", "7", "8", "9", "d", "e", "m">>

CharRank(c) == CHOOSE i \in 1..Len(Collation) : Collation[i] = c

\* a < b for two str cells; a missing cell comes after every text
RECURSIVE TextLess(_, _)
TextLess(a, b) ==
    IF a = NaNText THEN FALSE
    ELSE IF b = NaNText THEN TRUE
    ELSE IF b = <<>> THEN FALSE
    ELSE IF a = <<>> THEN TRUE
    ELSE IF Head(a) = Head(b) THEN TextLess(Tail(a), Tail(b))
    ELSE CharRank(Head(a)) < CharRank(Head(b))

\* a < b for two group keys (sequences of str cells)
RECURSIVE KeyLess(_, _)
KeyLess(a, b) ==
    IF a = <<>> THEN FALSE
    ELSE IF Head(a) = Head(b) THEN KeyLess(Tail(a), Tail(b))
    ELSE TextLess(Head(a), Head(b))

\* the key of a row under groupby(by): its cells in the columns by
KeyOf(r, by) == [i \in 1..Len(by) |-> r[by[i]]]

\* the keys of a set in ascending order
RECURSIVE SortedKeys(_)
SortedKeys(S) ==
    IF S = {} THEN <<>>
    ELSE LET first == CHOOSE k \in S : \A o \in S \ {k} : KeyLess(k, o)
         IN  <<first>> \o SortedKeys(S \ {first})

\* groupby(by, dropna=False): the group keys in ascending order, and the rows of
\* one group
GroupKeys(rows, by) == SortedKeys({KeyOf(rows[i], by) : i \in 1..Len(rows)})

GroupRows(rows, by, key) == SelectSeq(rows, LAMBDA r : KeyOf(r, by) = key)

\* a > b for two floats held as fractions; x / 0 with x > 0 is inf
FracGreater(a, b) ==
    LET sgn(d) == IF d < 0 THEN 0 - 1 ELSE 1
        mag(d) == IF d < 0 THEN 0 - d ELSE d
    IN  IF b.den = 0 THEN FALSE
        ELSE IF a.den = 0 THEN TRUE
        ELSE a.num * sgn(a.den) * mag(b.den) > b.num * sgn(b.den) * mag(a.den)

\* sort_values(by, ascending=False): a float column is compared as fractions; rows
\* that compare equal are left in the order they had
Greater(a, b, by) ==
    IF by = "glosa_pct" THEN FracGreater(a[by], b[by]) ELSE a[by] > b[by]

RECURSIVE InsertedDesc(_, _, _)
InsertedDesc(r, sorted, by) ==
    IF sorted = <<>> THEN <<r>>
    ELSE IF Greater(r, Head(sorted), by) THEN <<r>> \o sorted
    ELSE <<Head(sorted)>> \o InsertedDesc(r, Tail(sorted), by)

RECURSIVE sort_values_desc(_, _)
sort_values_desc(rows, by) ==
    IF rows = <<>> THEN <<>>
    ELSE InsertedDesc(rows[Len(rows)], sort_values_desc(SubSeq(rows, 1, Len(rows) - 1), by), by)

\* DataFrame.head(n)
head(rows, n) == SubSeq(rows, 1, IF Len(rows) < n THEN Len(rows) ELSE n)

\* base of kpis_por_competencia after lines 27-30: a competencia column is written
\* to it when the table has none
kpis_base(df_conc) ==
    [i \in 1..Len(df_conc) |->
        IF "competencia" \in Columns(df_conc) THEN df_conc[i]
        ELSE df_conc[i] @@ [competencia |->
                 IF "Competência" \in Columns(df_conc)
                 THEN AsStr(df_conc[i]["Competência"]) ELSE <<>>]]

kpis_por_competencia(df_conc) ==
    LET base == kpis_base(df_conc)
        by   == <<"competencia">>
        keys == GroupKeys(base, by)
        grp(key) ==
            LET g == GroupRows(base, by, key)
                r == [competencia       |-> key[1],
                      valor_apresentado |-> SumCol(g, "valor_apresentado"),
                      valor_pago        |-> SumCol(g, "valor_pago"),
                      valor_glosa       |-> SumCol(g, "valor_glosa")]
            IN  r @@ [glosa_pct |-> IF r.valor_apresentado > 0
                                    THEN TrueDiv(r.valor_glosa, r.valor_apresentado)
                                    ELSE ZeroFloat]
    IN  IF df_conc = <<>> THEN <<>> ELSE [i \in 1..Len(keys) |-> grp(keys[i])]

\* grp_com_glosa of ranking_itens_glosa with its glosa_pct column
grp_com_glosa(df_conc) ==
    LET by   == <<"codigo_procedimento", "descricao_procedimento">>
        keys == GroupKeys(df_conc, by)
        grp(key) ==
            LET g == GroupRows(df_conc, by, key)
            IN  [codigo_procedimento    |-> key[1],
                 descricao_procedimento |-> key[2],
                 valor_apresentado      |-> SumCol(g, "valor_apresentado"),
                 valor_glosa            |-> SumCol(g, "valor_glosa"),
                 valor_pago             |-> SumCol(g, "valor_pago"),
                 qtd_glosada            |-> Len(SelectSeq(g, LAMBDA r : Gt(r.valor_glosa, 0)))]
        com  == SelectSeq([i \in 1..Len(keys) |-> grp(keys[i])], LAMBDA r : r.valor_glosa > 0)
    IN  [i \in 1..Len(com) |->
            com[i] @@ [glosa_pct |-> TrueDiv(com[i].valor_glosa * 100, com[i].valor_apresentado)]]

\* ranking_itens_glosa: the pair (top_valor, top_pct)
ranking_itens_glosa(df_conc, min_apresentado, topn) ==
    LET com == grp_com_glosa(df_conc)
    IN  IF df_conc = <<>> \/ com = <<>> THEN [top_valor |-> <<>>, top_pct |-> <<>>]
        ELSE [top_valor |-> head(sort_values_desc(com, "valor_glosa"), topn),
              top_pct   |-> head(sort_values_desc(SelectSeq(com, LAMBDA r :
                                         r.valor_apresentado >= min_apresentado), "glosa_pct"),
                                 topn)]

\* motivos_glosa(df_conc, competencia); competencia is <<>> for None
motivos_glosa(df_conc, competencia) ==
    LET com_glosa == SelectSeq(df_conc, LAMBDA r : Gt(r.valor_glosa, 0))
        base == IF competencia # <<>> /\ "competencia" \in Columns(df_conc)
                THEN SelectSeq(com_glosa, LAMBDA r : r.competencia = competencia)
                ELSE com_glosa
        by   == <<"motivo_glosa_codigo", "motivo_glosa_descricao">>
        keys == GroupKeys(base, by)
        total_glosa == SumCol(base, "valor_glosa")
        mot(key) ==
            LET g == GroupRows(base, by, key)
            IN  [motivo_glosa_codigo    |-> key[1],
                 motivo_glosa_descricao |-> key[2],
                 valor_glosa            |-> SumCol(g, "valor_glosa"),
                 itens     |-> Len(SelectSeq(g, LAMBDA r : r.codigo_procedimento # NaNText)),
                 categoria |-> categorizar_motivo_ans(key[1]),
                 glosa_pct |-> IF total_glosa > 0
                               THEN TrueDiv(SumCol(g, "valor_glosa") * 100, total_glosa)
                               ELSE ZeroFloat]
    IN  IF df_conc = <<>> \/ base = <<>> THEN <<>>
        ELSE sort_values_desc([i \in 1..Len(keys) |-> mot(keys[i])], "valor_glosa")

\* Series * float and Series.clip(lower=0) on one cell
Mul(a, b) == IF a = NaN THEN NaN ELSE a * b

clip_lower_0(a) == IF a = NaN THEN NaN ELSE IF a < 0 THEN 0 ELSE a

\* simulador_glosa(df_conc, ajustes); ajustes is a function from the str of a
\* reason code to its factor.  The keys of a dict are distinct, so a row is
\* rewritten by at most one pass of the loop
simulador_glosa(df_conc, ajustes) ==
    LET sim(r) ==
            LET cod == AsStr(r.motivo_glosa_codigo)
                valor_glosa_sim == clip_lower_0(IF cod \in DOMAIN ajustes
                                                THEN Mul(r.valor_glosa, ajustes[cod])
                                                ELSE r.valor_glosa)
            IN  r @@ [valor_glosa_sim |-> valor_glosa_sim,
                      valor_pago_sim  |-> clip_lower_0(Sub(r.valor_apresentado, valor_glosa_sim)),
                      glosa_pct_sim   |-> IF Gt(r.valor_apresentado, 0)
                                          THEN TrueDiv(valor_glosa_sim, r.valor_apresentado)
                                          ELSE ZeroFloat]
    IN  IF df_conc = <<>> \/ "motivo_glosa_codigo" \notin Columns(df_conc) THEN df_conc
        ELSE [i \in 1..Len(df_conc) |-> sim(df_conc[i])]

\* "sorted(conc['motivo_glosa_codigo'].dropna().astype(str).unique().tolist())
\*  if 'motivo_glosa_codigo' in conc.columns else []", as a set
motivos_disponiveis(conc) ==
    IF conc # <<>> /\ "motivo_glosa_codigo" \in Columns(conc)
    THEN {AsStr(conc[i].motivo_glosa_codigo) :
             i \in {i \in 1..Len(conc) : conc[i].motivo_glosa_codigo # NaNText}}
    ELSE {}

(***************************************************************************)
(* The analytics functions in isolation: one reconciled table, given to    *)
(* one of the five functions with the arguments the view gives it.         *)
(***************************************************************************)
\* a reconciled row: the paid value is the presented value less the denied one, the
\* denial ratio is the one conciliar_itens computes
ConcRow(codigo, competencia, valor_apresentado, valor_glosa, motivo) ==
    [codigo_procedimento    |-> codigo,
     descricao_procedimento |-> <<"d">>,
     competencia            |-> competencia,
     valor_apresentado      |-> valor_apresentado,
     valor_glosa            |-> valor_glosa,
     valor_pago             |-> Sub(valor_apresentado, valor_glosa),
     motivo_glosa_codigo    |-> motivo,
     motivo_glosa_descricao |-> IF motivo = NaNText THEN NaNText ELSE <<"m">>,
     glosa_pct |-> glosa_pct([valor_apresentado |-> valor_apresentado,
                              valor_glosa |-> valor_glosa])]

\* rows of small values: the presented value is known (a reconciled row always has
\* one), the denied value and the reason code may be missing
RatioRows ==
    { ConcRow(p[1], p[2], va, vg, motivo) :
        p \in {<< <<"1">>, <<"0", "1">> >>, << <<"2">>, <<"0", "2">> >>},
        va \in 0..MaxNum, vg \in {NaN} \cup 0..MaxNum,
        motivo \in {<<"1">>, <<"2">>, NaNText} }

\* tables of at most two such rows, listed once for every pair of rows
RatioTables ==
    {<<>>} \cup { <<r>> : r \in RatioRows }
           \cup { LET r == CHOOSE x \in S : TRUE
                  IN  IF S = {r} THEN <<r, r>> ELSE <<r, CHOOSE y \in S : y # r>> :
                  S \in { {x, y} : x \in RatioRows, y \in RatioRows } }

\* one-row tables of a payment table that had no competencia column
SemCompetencia ==
    { << [c \in DOMAIN r \ {"competencia"} |-> r[c]] >> :
        r \in {x \in RatioRows : x.codigo_procedimento = <<"1">>} }

\* rows around the fences of a group whose quartiles are 100 and 200, a row of
\* another procedure and a row without presented value
FenceRows ==
    { ConcRow(<<"1">>, <<"0", "1">>, va, 0, NaNText) :
        va \in {0 - 51, 0 - 50, 0 - 49, 100, 200, 349, 350, 351, NaN} }
    \cup { ConcRow(<<"2">>, <<"0", "1">>, 100, 0, NaNText) }

RECURSIVE TablesUpTo(_, _)
TablesUpTo(rows, n) ==
    IF n = 0 THEN {<<>>}
    ELSE LET shorter == TablesUpTo(rows, n - 1)
         IN  shorter \cup {Append(t, r) : t \in {x \in shorter : Len(x) = n - 1}, r \in rows}

\* a group of four (100, 100, 200, 200) followed by at most MaxRows more rows
FenceTables ==
    { [i \in 1..4 |-> ConcRow(<<"1">>, <<"0", "1">>, IF i <= 2 THEN 100 ELSE 200, 0, NaNText)]
      \o t : t \in TablesUpTo(FenceRows, MaxRows) }

ConcTables == RatioTables \cup SemCompetencia \cup FenceTables

InitAnalytics ==
    /\ pc = "analytics"
    /\ xml_files = <<>>
    /\ strip_zeros_codes = FALSE
    /\ df_xml = <<>>
    /\ erro = ""
    /\ df_demo = <<>>
    /\ tolerance_valor = 0
    /\ fallback_por_descricao = FALSE
    /\ conciliacao = <<>>
    /\ nao_casados = <<>>
    /\ m1 = <<>>
    /\ m2 = <<>>
    /\ tmp = <<>>
    /\ fallback_matches = <<>>
    /\ apos = [df_xml |-> <<>>, df_demo |-> <<>>]
    /\ NcIdle
    /\ PxIdle
    /\ CmIdle
    /\ UiIdle
    /\ \E t \in ConcTables : an = [fn |-> "", df_conc |-> t]

\* kpi_comp = kpis_por_competencia(conc)
KpisPorCompetencia ==
    /\ an.fn = ""
    /\ an' = [fn           |-> "kpis_por_competencia",
              df_conc      |-> an.df_conc,
              df_conc_apos |-> copy(an.df_conc, kpis_base(an.df_conc)),
              ret          |-> kpis_por_competencia(an.df_conc)]
    /\ UNCHANGED <<pipeVars, nc, px, cm, uiVars>>

\* top_valor, top_pct = ranking_itens_glosa(conc, min_apresentado=min_apres, topn=20);
\* base, the copy, is only read
RankingItensGlosa ==
    /\ an.fn = ""
    /\ \E min_apresentado \in 0..1 :
          an' = [fn              |-> "ranking_itens_glosa",
                 df_conc         |-> an.df_conc,
                 df_conc_apos    |-> an.df_conc,
                 min_apresentado |-> min_apresentado,
                 grp_com_glosa   |-> grp_com_glosa(an.df_conc),
                 ret             |-> ranking_itens_glosa(an.df_conc, min_apresentado, 20)]
    /\ UNCHANGED <<pipeVars, nc, px, cm, uiVars>>

\* motdf = motivos_glosa(conc, None if comp_sel == '(todas)' else comp_sel); base,
\* the copy, is only read
MotivosGlosa ==
    /\ an.fn = ""
    /\ \E competencia \in {<<>>, <<"0", "1">>} :
          an' = [fn           |-> "motivos_glosa",
                 df_conc      |-> an.df_conc,
                 df_conc_apos |-> an.df_conc,
                 competencia  |-> competencia,
                 ret          |-> motivos_glosa(an.df_conc, competencia)]
    /\ UNCHANGED <<pipeVars, nc, px, cm, uiVars>>

\* out_df = outliers_por_procedimento(conc, k=1.5); base is a new table (a
\* selection of columns, then dropna, then copy)
OutliersPorProcedimento ==
    /\ an.fn = ""
    /\ LET k == [num |-> 3, den |-> 2]
       IN  an' = [fn           |-> "outliers_por_procedimento",
                  df_conc      |-> an.df_conc,
                  df_conc_apos |-> an.df_conc,
                  k            |-> k,
                  base         |-> outliers_base(an.df_conc, k),
                  ret          |-> outliers_por_procedimento(an.df_conc, k)]
    /\ UNCHANGED <<pipeVars, nc, px, cm, uiVars>>

\* sim = simulador_glosa(conc, ajustes), with one factor for each reason code of
\* the table (the sliders of the view); the factors are 0 and 1
SimuladorGlosa ==
    /\ an.fn = ""
    /\ motivos_disponiveis(an.df_conc) # {}
    /\ \E ajustes \in [motivos_disponiveis(an.df_conc) -> {0, 1}] :
          an' = [fn           |-> "simulador_glosa",
                 df_conc      |-> an.df_conc,
                 df_conc_apos |-> copy(an.df_conc, simulador_glosa(an.df_conc, ajustes)),
                 ajustes      |-> ajustes,
                 ret          |-> simulador_glosa(an.df_conc, ajustes)]
    /\ UNCHANGED <<pipeVars, nc, px, cm, uiVars>>

NextAnalytics ==
    \/ KpisPorCompetencia
    \/ RankingItensGlosa
    \/ MotivosGlosa
    \/ OutliersPorProcedimento
    \/ SimuladorGlosa

SpecAnalytics == InitAnalytics /\ [][NextAnalytics]_vars

\* the presented value v lies in the closed interval [q1 - k*iqr, q3 + k*iqr], the
\* quartiles being held in quarters
DentroDaCerca(v, q1, q3, k) ==
    /\ 4 * k.den * v >= k.den * q1 - k.num * (q3 - q1)
    /\ 4 * k.den * v <= k.den * q3 + k.num * (q3 - q1)

\* C11: outliers_por_procedimento returns exactly the rows whose presented value
\* lies outside the closed interval [Q1 - k*IQR, Q3 + k*IQR] of their (code,
\* description) group, so a value on a fence is not returned; in a group with
\* Q1 = 100 and Q3 = 200, with k = 1.5, the values 349 and -49 are not returned
\* and the values 351 and -51 are.
C11_OutlierFence ==
    an.fn = "outliers_por_procedimento" =>
        /\ an.ret = SelectSeq(an.base, LAMBDA r :
                        ~DentroDaCerca(r.valor_apresentado, r.q1, r.q3, an.k))
        /\ \A i \in 1..Len(an.base) :
              LET r       == an.base[i]
                  flagged == \E j \in 1..Len(an.ret) : an.ret[j] = r
              IN  /\ r.is_outlier <=> ~DentroDaCerca(r.valor_apresentado, r.q1, r.q3, an.k)
                  /\ (r.q1 = 4 * 100 /\ r.q3 = 4 * 200) =>
                        /\ r.valor_apresentado \in {349, 0 - 49, 350, 0 - 50} => ~flagged
                        /\ r.valor_apresentado \in {351, 0 - 51} => flagged

\* a group of quartiles 100 and 200 with a value on the upper fence, which was not
\* returned, in a table that also has a row dropped for a missing value
C11_Witness ==
    /\ an.fn = "outliers_por_procedimento"
    /\ \E i \in 1..Len(an.base) :
          /\ an.base[i].q1 = 4 * 100 /\ an.base[i].q3 = 4 * 200
          /\ an.base[i].valor_apresentado = 350
          /\ ~an.base[i].is_outlier
    /\ Len(an.base) < Len(an.df_conc)

\* every reason code of the table was given the factor f
TodosOsFatores(f) == \A cod \in DOMAIN an.ajustes : an.ajustes[cod] = f

\* C12: with factor 0 for every reason code, every row of the simulated table has
\* valor_glosa_sim = 0 and valor_pago_sim = max(valor_apresentado, 0); with factor
\* 1 for every reason code, every row has valor_glosa_sim = valor_glosa,
\* valor_pago_sim = valor_pago and glosa_pct_sim = glosa_pct.
C12_SimulatorMonotone ==
    an.fn = "simulador_glosa" =>
        \A i \in 1..Len(an.ret) :
            LET r == an.ret[i]
            IN  /\ TodosOsFatores(0) =>
                      /\ r.valor_glosa_sim = 0
                      /\ r.valor_pago_sim = clip_lower_0(r.valor_apresentado)
                /\ TodosOsFatores(1) =>
                      /\ r.valor_glosa_sim = r.valor_glosa
                      /\ r.valor_pago_sim = r.valor_pago
                      /\ r.glosa_pct_sim = r.glosa_pct

\* every reason code was given the factor 0 and the table has a row with a denied
\* value and no reason code
C12_Witness ==
    /\ an.fn = "simulador_glosa"
    /\ TodosOsFatores(0)
    /\ \E i \in 1..Len(an.df_conc) :
          /\ an.df_conc[i].motivo_glosa_codigo = NaNText
          /\ Gt(an.df_conc[i].valor_glosa, 0)

\* a ratio that is a finite number (no division by zero, no missing operand), and
\* one that is 0
Finito(f) == notna(f.num) /\ notna(f.den) /\ f.den # 0

Nulo(f) == Finito(f) /\ f.num = 0

\* the ratio f emitted for the denominator den is guarded
Guardado(f, den) == Finito(f) /\ ((den = 0 \/ ~notna(den)) => Nulo(f))

\* C13: every ratio the analytics functions emit is a finite number, and is 0 when
\* its denominator is zero or missing: glosa_pct of kpis_por_competencia, of both
\* tables of ranking_itens_glosa (also for a group that has a denied value and a
\* presented value of zero) and of motivos_glosa, and glosa_pct_sim of
\* simulador_glosa.
C13_DivisionGuarded ==
    /\ an.fn = "kpis_por_competencia" =>
          \A i \in 1..Len(an.ret) : Guardado(an.ret[i].glosa_pct, an.ret[i].valor_apresentado)
    /\ an.fn = "ranking_itens_glosa" =>
          /\ \A i \in 1..Len(an.ret.top_valor) :
                Guardado(an.ret.top_valor[i].glosa_pct, an.ret.top_valor[i].valor_apresentado)
          /\ \A i \in 1..Len(an.ret.top_pct) :
                Guardado(an.ret.top_pct[i].glosa_pct, an.ret.top_pct[i].valor_apresentado)
    /\ an.fn = "motivos_glosa" =>
          \A i \in 1..Len(an.ret) :
              Guardado(an.ret[i].glosa_pct, SumCol(an.ret, "valor_glosa"))
    /\ an.fn = "simulador_glosa" =>
          \A i \in 1..Len(an.ret) :
              Guardado(an.ret[i].glosa_pct_sim, an.ret[i].valor_apresentado)

\* ranking_itens_glosa was given a table with a procedure group whose denied
\* values add up to more than zero and whose presented values add up to zero
C13_Witness ==
    /\ an.fn = "ranking_itens_glosa"
    /\ \E i \in 1..Len(an.grp_com_glosa) :
          /\ an.grp_com_glosa[i].valor_glosa > 0
          /\ an.grp_com_glosa[i].valor_apresentado = 0
          /\ \E j \in 1..Len(an.ret.top_valor) :
                an.ret.top_valor[j] = an.grp_com_glosa[i]

(***************************************************************************)
(* The functions that take tables, side by side: a behaviour is either a   *)
(* run of the pipeline or one call of an analytics function.               *)
(***************************************************************************)
InitFrame == InitPipe \/ InitAnalytics

NextFrame ==
    \/ BuildXmlDf
    \/ ConciliarItens
    \/ KpisPorCompetencia
    \/ RankingItensGlosa
    \/ MotivosGlosa
    \/ OutliersPorProcedimento
    \/ SimuladorGlosa

SpecFrame == InitFrame /\ [][NextFrame]_vars

Cadastro == {<<"1","0","0","1">>, <<"1","0","0","2">>, <<"1","0","0","3">>,
             <<"1","0","0","6">>, <<"1","0","0","9">>}

Autorizacao == {<<"1","2","0","1">>, <<"1","2","0","2">>, <<"1","2","0","5">>,
                <<"1","2","0","9">>}

Tabela == {<<"1","8","0","1">>, <<"1","8","0","2">>, <<"1","8","0","5">>,
           <<"1","8","0","6">>}

Documentacao == {<<"2","5","0","1">>, <<"2","5","0","5">>, <<"2","5","0","9">>}

\* reason codes: the named ones, bare or with surrounding whitespace; every text of
\* at most MaxLen characters over "0", "1", "2", "5" and the blank, bare or after
\* one of the prefixes "20", "22", "25", "10"; the missing code
ReasonCodes ==
    LET named == Cadastro \cup Autorizacao \cup Tabela \cup Documentacao
        short == StringsUpTo({"0", "1", "2", "5", " "}, MaxLen)
    IN  named
        \cup {<<" ">> \o c \o <<"\n">> : c \in named}
        \cup {pre \o c : pre \in {<<>>, <<"2","0">>, <<"2","2">>, <<"2","5">>, <<"1","0">>},
                         c \in short}
        \cup {NaNText}

InitMotivo ==
    /\ PipeIdle
    /\ NcIdle
    /\ PxIdle
    /\ AnIdle
    /\ UiIdle
    /\ \E codigo \in ReasonCodes : cm = [called |-> FALSE, codigo |-> codigo, ret |-> ""]

\* ret = categorizar_motivo_ans(codigo)
CategorizarMotivo ==
    /\ ~cm.called
    /\ cm' = [cm EXCEPT !.called = TRUE, !.ret = categorizar_motivo_ans(cm.codigo)]
    /\ UNCHANGED <<pipeVars, nc, px, an, uiVars>>

NextMotivo == CategorizarMotivo

SpecMotivo == InitMotivo /\ [][NextMotivo]_vars

\* the categories whose rule applies to the trimmed code c, each rule read on its
\* own; the last category is the one for a code no rule applies to
Categorias(c) ==
    LET regras == (IF c \in Cadastro THEN {"Cadastro/Elegibilidade"} ELSE {})
                  \cup (IF c \in Autorizacao THEN {"Autorização/SADT"} ELSE {})
                  \cup (IF c \in Tabela THEN {"Tabela/Preços"} ELSE {})
                  \cup (IF Len(c) >= 2 /\ c[1] = "2" /\ c[2] \in {"0", "2"}
                        THEN {"Auditoria Médica/Técnica"} ELSE {})
                  \cup (IF c \in Documentacao THEN {"Documentação/Físico"} ELSE {})
    IN  IF regras = {} THEN {"Outros/Administrativa"} ELSE regras

\* C19: for every reason code, exactly one of the six categories has a rule that
\* applies to the code without its surrounding whitespace, and categorizar_motivo_ans
\* returns that category.
C19_Taxonomy ==
    cm.called =>
        /\ Cardinality(Categorias(Strip(AsStr(cm.codigo)))) = 1
        /\ Categorias(Strip(AsStr(cm.codigo))) = {cm.ret}

\* a documentation code given with surrounding whitespace was categorized
C19_Witness ==
    /\ cm.called
    /\ cm.codigo # Strip(cm.codigo)
    /\ Strip(cm.codigo) \in Documentacao
    /\ cm.ret = "Documentação/Físico"

(***************************************************************************)
(* state/ui_state.py, ui/glosas_view.py, ui/components/item_details.py:    *)
(* the session state of the denial-report tab.  Every user event makes     *)
(* Streamlit run render_glosas_tab once; st.rerun() ends the run and asks  *)
(* for another one.  None is the text "None"; a missing description cell   *)
(* is the text "NaN" and, as a float NaN, differs from itself.             *)
(***************************************************************************)
\* largest value of top_itens_editor_version the model follows
MaxVersion == 3

\* the workbooks a user can put in the uploader; "r.xlsx" is not a readable workbook
Planilhas == {"a.xlsx", "b.xlsx", "r.xlsx"}

Legivel(f) == f # "r.xlsx"

Tamanho(f) == IF f = "a.xlsx" THEN 1 ELSE 2

\* the denied items of a workbook, already in the order of the ranking: two codes
\* share the description "X", one item of "b.xlsx" has no description
ItensDe(f) ==
    IF f = "a.xlsx"
    THEN << [codigo |-> "1", descricao |-> "X"], [codigo |-> "2", descricao |-> "X"],
            [codigo |-> "3", descricao |-> "Y"] >>
    ELSE IF f = "b.xlsx"
    THEN << [codigo |-> "4", descricao |-> "Z"], [codigo |-> "5", descricao |-> "NaN"] >>
    ELSE <<>>

\* the place of a workbook in the order of the names
Posicao(f) == IF f = "a.xlsx" THEN 1 ELSE IF f = "b.xlsx" THEN 2 ELSE 3

\* the files of an upload in the order of their names
RECURSIVE Ordenados(_)
Ordenados(S) ==
    IF S = {} THEN <<>>
    ELSE LET f == CHOOSE x \in S : \A y \in S : Posicao(x) <= Posicao(y)
         IN  <<f>> \o Ordenados(S \ {f})

\* files_signature(files)
files_signature(files) ==
    IF files = {} THEN None
    ELSE Some([i \in 1..Cardinality(files) |->
                  <<Ordenados(files)[i], Tamanho(Ordenados(files)[i])>>])

\* read_glosas_xlsx raises (pd.read_excel on a file that is no workbook)
read_glosas_xlsx_raises(files) == \E f \in files : ~Legivel(f)

\* read_glosas_xlsx(files) when it returns: (df, colmap)
read_glosas_xlsx(files) ==
    [df     |-> Some(ConcatAll([i \in 1..Cardinality(files) |->
                                    ItensDe(Ordenados(files)[i])])),
     colmap |-> Some(<<"Descricao", "Procedimento">>)]

\* variant of clear_glosas_state that keeps the signature of the processed files
clear_glosas_state_sem_sig(ss) ==
    [ss EXCEPT !.glosas_ready = FALSE, !.glosas_data = None, !.glosas_colmap = None]

\* clear_glosas_state()
clear_glosas_state(ss) ==
    [ss EXCEPT !.glosas_ready = FALSE, !.glosas_data = None, !.glosas_colmap = None,
               !.glosas_files_sig = None]

\* the Process branch of render_glosas_tab when the read returns
processar(ss, files) ==
    [ss EXCEPT !.glosas_data      = read_glosas_xlsx(files).df,
               !.glosas_colmap    = read_glosas_xlsx(files).colmap,
               !.glosas_ready     = TRUE,
               !.glosas_files_sig = files_signature(files)]

\* str(v) of a description or of None
Str(v) == IF v = "NaN" THEN "nan" ELSE v

\* Python's a != b
Differs(a, b) == a = "NaN" \/ b = "NaN" \/ a # b

\* bool(v) of a description or of None
Truthy(v) == v \notin {"None", ""}

\* the ranking table of the editor: one row for each (code, description)
agg(data) == drop_duplicates(data.v, {"codigo", "descricao"})

\* prev_series: the rows whose description, as text, is the stored selection
prev_series(rows, selected) ==
    {i \in 1..Len(rows) : Str(rows[i].descricao) = Str(selected)}

\* curr_series: the Detalhes column the editor returns, the user's edits applied
curr_series(rows, selected, edits) ==
    {i \in 1..Len(rows) : \/ i \in edits.on
                          \/ i \in prev_series(rows, selected) /\ i \notin edits.off}

Ultimo(S) == CHOOSE i \in S : \A j \in S : j <= i

Primeiro(S) == CHOOSE i \in S : \A j \in S : i <= j

\* new_selected_item
new_selected_item(rows, selected, edits) ==
    LET prev      == prev_series(rows, selected)
        curr      == curr_series(rows, selected, edits)
        turned_on == curr \ prev
        pick      == curr \ prev
    IN  IF turned_on # {} THEN rows[Ultimo(turned_on)].descricao
        ELSE IF curr = {} THEN "None"
        ELSE IF Cardinality(curr) = 1 THEN rows[Primeiro(curr)].descricao
        ELSE rows[IF pick # {} THEN Ultimo(pick) ELSE Ultimo(curr)].descricao

SemEdicoes == [on |-> {}, off |-> {}]

\* the top-items editor and the details panel, which a run reaches when the
\* report is loaded: [ss, rerun]
itens_e_detalhes(ss, edits, fechar_click) ==
    LET rows     == agg(ss.glosas_data)
        selected == ss.top_itens_editor_selected
        novo     == new_selected_item(rows, selected, edits)
    IN  IF rows # <<>> /\ Differs(novo, selected)
        THEN [ss    |-> [ss EXCEPT !.top_itens_editor_selected = novo,
                                   !.top_itens_editor_version = @ + 1],
              rerun |-> TRUE]
        ELSE IF Truthy(selected) /\ fechar_click
        THEN [ss    |-> [ss EXCEPT !.top_itens_editor_selected = "None",
                                   !.top_itens_editor_version = @ + 1],
              rerun |-> TRUE]
        ELSE [ss |-> ss, rerun |-> FALSE]

\* one run of render_glosas_tab: the session state it leaves, whether it ended in
\* st.rerun(), and the exception that ended it ("" when none)
render_glosas_tab(ss, files, proc_click, clear_click, edits, fechar_click) ==
    IF clear_click
    THEN [ss |-> clear_glosas_state(ss), rerun |-> TRUE, raised |-> ""]
    ELSE IF proc_click /\ files # {} /\ read_glosas_xlsx_raises(files)
    THEN [ss |-> ss, rerun |-> FALSE, raised |-> "Exception"]
    ELSE IF proc_click /\ files # {}
    THEN [ss |-> processar(ss, files), rerun |-> TRUE, raised |-> ""]
    ELSE IF ~ss.glosas_ready \/ ss.glosas_data = None
    THEN [ss |-> ss, rerun |-> FALSE, raised |-> ""]
    ELSE itens_e_detalhes(ss, edits, fechar_click) @@ [raised |-> ""]

InitGlosas ==
    /\ PipeIdle
    /\ NcIdle
    /\ PxIdle
    /\ AnIdle
    /\ CmIdle
    /\ UiIdle

\* the state after a run: the editor keeps the user's edits while its key and its
\* table stay the same
AposRun(evento, files, edits, run) ==
    /\ session_state' = run.ss
    /\ ui' = [glosas_xlsx_up |-> files,
              edits  |-> IF /\ run.ss.top_itens_editor_version
                                  = session_state.top_itens_editor_version
                            /\ run.ss.glosas_data = session_state.glosas_data
                         THEN edits ELSE SemEdicoes,
              rerun  |-> run.rerun,
              evento |-> evento,
              raised |-> run.raised,
              antes  |-> session_state]
    /\ UNCHANGED <<pipeVars, nc, px, an, cm>>

\* the user may act when no rerun is pending; the version counter is followed up
\* to MaxVersion
Pronto == ~ui.rerun /\ session_state.top_itens_editor_version < MaxVersion

\* the user adds or removes files in the uploader
UploadChange ==
    /\ Pronto
    /\ \E files \in SUBSET Planilhas :
          /\ files # ui.glosas_xlsx_up
          /\ AposRun("upload", files, ui.edits,
                     render_glosas_tab(session_state, files, FALSE, FALSE, ui.edits, FALSE))

\* the user clicks Process
ProcessClick ==
    /\ Pronto
    /\ AposRun("process", ui.glosas_xlsx_up, ui.edits,
               render_glosas_tab(session_state, ui.glosas_xlsx_up, TRUE, FALSE, ui.edits, FALSE))

\* the user clicks Clear
ClearClick ==
    /\ Pronto
    /\ AposRun("clear", ui.glosas_xlsx_up, ui.edits,
               render_glosas_tab(session_state, ui.glosas_xlsx_up, FALSE, TRUE, ui.edits, FALSE))

\* the editor is on the page
EditorVisivel ==
    /\ session_state.glosas_ready
    /\ agg(session_state.glosas_data) # <<>>

\* the user ticks or unticks the Detalhes box of one row of the editor
CheckboxEdit ==
    /\ Pronto
    /\ EditorVisivel
    /\ \E i \in 1..Len(agg(session_state.glosas_data)) :
          LET ligado == i \in curr_series(agg(session_state.glosas_data),
                                          session_state.top_itens_editor_selected, ui.edits)
              edits  == IF ligado
                        THEN [on |-> ui.edits.on \ {i}, off |-> ui.edits.off \cup {i}]
                        ELSE [on |-> ui.edits.on \cup {i}, off |-> ui.edits.off \ {i}]
          IN  AposRun("edit", ui.glosas_xlsx_up, edits,
                      render_glosas_tab(session_state, ui.glosas_xlsx_up, FALSE, FALSE,
                                        edits, FALSE))

\* the user clicks Close details, which the page shows for a stored selection
CloseDetails ==
    /\ Pronto
    /\ session_state.glosas_ready
    /\ Truthy(session_state.top_itens_editor_selected)
    /\ AposRun("close", ui.glosas_xlsx_up, ui.edits,
               render_glosas_tab(session_state, ui.glosas_xlsx_up, FALSE, FALSE, ui.edits, TRUE))

\* the run Streamlit starts after st.rerun()
Rerun ==
    /\ ui.rerun
    /\ session_state.top_itens_editor_version < MaxVersion
    /\ AposRun("rerun", ui.glosas_xlsx_up, ui.edits,
               render_glosas_tab(session_state, ui.glosas_xlsx_up, FALSE, FALSE, ui.edits, FALSE))

NextGlosas ==
    \/ UploadChange
    \/ ProcessClick
    \/ ClearClick
    \/ CheckboxEdit
    \/ CloseDetails
    \/ Rerun

SpecGlosas == InitGlosas /\ [][NextGlosas]_vars

\* the four session keys of the report
Glosas(ss) == <<ss.glosas_ready, ss.glosas_data, ss.glosas_colmap, ss.glosas_files_sig>>

\* C29: glosas_ready is true only if glosas_data, glosas_colmap and
\* glosas_files_sig are set; a Clear click leaves the four keys at (False, None,
\* None, None); a Process click with no file selected, or whose read fails, leaves
\* the four unchanged; a change of the uploaded files without a Process click
\* changes neither the stored data nor the stored signature.
C29_GlosasSessionState ==
    /\ session_state.glosas_ready =>
          /\ session_state.glosas_data # None
          /\ session_state.glosas_colmap # None
          /\ session_state.glosas_files_sig # None
    /\ ui.evento = "clear" => Glosas(session_state) = <<FALSE, None, None, None>>
    /\ (ui.evento = "process" /\ (ui.glosas_xlsx_up = {} \/ ui.raised # ""))
          => Glosas(session_state) = Glosas(ui.antes)
    /\ ui.evento = "upload" =>
          /\ session_state.glosas_data = ui.antes.glosas_data
          /\ session_state.glosas_files_sig = ui.antes.glosas_files_sig

\* a Process click on a loaded report whose read failed, the uploader holding other
\* files than the ones of the stored signature
C29_Witness ==
    /\ ui.evento = "process"
    /\ ui.raised # ""
    /\ session_state.glosas_ready
    /\ files_signature(ui.glosas_xlsx_up) # session_state.glosas_files_sig

\* C30: top_itens_editor_selected holds one item description or None;
\* top_itens_editor_version never decreases, and a run increases it by exactly 1
\* when it changes the stored selection and leaves it alone otherwise; after a
\* Close-details click the stored selection is None.
C30_ItemSelection ==
    /\ session_state.top_itens_editor_selected \in {"None", "X", "Y", "Z", "NaN"}
    /\ session_state.top_itens_editor_version >= ui.antes.top_itens_editor_version
    /\ session_state.top_itens_editor_version - ui.antes.top_itens_editor_version =
          (IF session_state.top_itens_editor_selected = ui.antes.top_itens_editor_selected
           THEN 0 ELSE 1)
    /\ ui.evento = "close" => session_state.top_itens_editor_selected = "None"

\* the item without description is the stored selection and a rerun has raised the
\* version again
C30_Witness ==
    /\ ui.evento = "rerun"
    /\ session_state.top_itens_editor_selected = "NaN"
    /\ ui.antes.top_itens_editor_selected = "NaN"
    /\ session_state.top_itens_editor_version > ui.antes.top_itens_editor_version

====
